---- MODULE Spec2Model ----
(***************************************************************************)
(* Model of the configuration orchestration engine of emulator_init:       *)
(* EmulatorInitializer (core.py) driving the configurators derived from    *)
(* BaseConfigurator (modules/base_configurator.py).                        *)
(***************************************************************************)
EXTENDS Naturals, Integers, Sequences, FiniteSets, TLC

(***************************************************************************)
(* Bounds of the exploration.                                              *)
(***************************************************************************)
\* largest number of keys of the priority list present in a configuration
MaxKnown == 2
\* largest number of keys outside the priority list present in a configuration
MaxUnknown == 1
\* largest number of backend operations one configure() call issues
MaxOps == 2

(***************************************************************************)
(* Values.                                                                 *)
(***************************************************************************)
\* Python None
Null == "null"
\* an attribute the object does not have (hasattr is False)
Absent == "absent"

\* variant of configuration_order: system is configured first
configuration_order_systemFirst ==
    << "system", "datetime", "contacts", "sms", "calendar", "recipe", "tasks",
       "expense", "music", "joplin", "osmand", "audio_recorder", "markor",
       "files", "opentracks", "gallery" >>

\* core.py:133-150, the keys of configuration_order in list order
configuration_order ==
    << "datetime", "contacts", "sms", "calendar", "recipe", "tasks",
       "expense", "music", "joplin", "osmand", "audio_recorder", "markor",
       "files", "opentracks", "gallery", "system" >>

\* core.py:173, {item[0] for item in configuration_order}
OrderKeys == {configuration_order[i] : i \in 1..Len(configuration_order)}

\* top-level configuration keys that no entry of configuration_order names
UnknownKeys == {"unknown_module", "wallpaper"}

\* position of each key in configuration_order
PositionOf == [k \in OrderKeys |-> CHOOSE i \in 1..Len(configuration_order) : configuration_order[i] = k]

Position(k) == PositionOf[k]

\* core.py:162, self.config[config_key]: the module fragment stored under a key
Fragment(k) == [module |-> k]

\* the keys of the priority list that the explored configurations draw from:
\* its first two entries, two entries of the middle and its last entry
SampledKeys == {"datetime", "contacts", "calendar", "music", "system"}

\* core.py:59-73, the mappings _load_config can return: a fragment per present key
Configurations ==
    {[k \in (A \cup B) |-> Fragment(k)] :
        A \in {S \in SUBSET SampledKeys : Cardinality(S) <= MaxKnown},
        B \in {S \in SUBSET UnknownKeys : Cardinality(S) <= MaxUnknown}}

\* core.py:47-50, the three kinds of device_serial setup_environment distinguishes
DeviceSerials == {"none", "emulator-5554", "R58M123ABC"}

\* variant of TargetsEmulator: only a run without device serial targets an
\* emulator
TargetsEmulator_onlyWithoutSerial(serial) == serial = "none"

\* core.py:88, not self.device_serial or self.device_serial.startswith("emulator-")
TargetsEmulator(serial) == serial = "none" \/ serial = "emulator-5554"

\* base_configurator.py:25-36, the environment values the constructor
\* distinguishes: None, or an object with or without the attributes base_env
\* and controller, each of which may hold None
NullEnv == [id |-> Null, base_env |-> Absent, controller |-> Absent]

EnvShapes ==
    {NullEnv} \cup
    {[id |-> "env", base_env |-> b, controller |-> c] :
        b \in {Absent, Null, "base_ctl"}, c \in {Absent, Null, "ctl"}}

\* core.py:97-104, the values env_launcher.load_and_setup_env (a function of the
\* android_world package, outside this repository) hands back: an environment
\* object of the new style (base_env), of the old style (controller), and the
\* same objects while the relation the constructor picks still holds None
LaunchedEnvs ==
    {[id |-> "env", base_env |-> "base_ctl", controller |-> "ctl"],
     [id |-> "env", base_env |-> Absent, controller |-> "ctl"],
     [id |-> "env", base_env |-> Null, controller |-> "ctl"],
     [id |-> "env", base_env |-> Absent, controller |-> Null]}

\* the device as far as the orchestration is concerned: nothing of it is read
NoDevice == [kind |-> "opaque"]

\* no configure() call is running: no locals
NoFrame == [step |-> 0]

\* no configurator object is alive
NoConfigurator == [key |-> Null, env |-> NullEnv, env_controller |-> Null, config |-> Fragment(Null)]

VARIABLES
    config,         \* self.config, core.py:51
    device_serial,  \* self.device_serial, core.py:50
    env,            \* self.env, core.py:52 and core.py:97
    pc,             \* position of the caller in initialize() / configure_<key>()
    idx,            \* index of the for loop over configuration_order, core.py:155
    total_count,    \* core.py:153
    success_count,  \* core.py:152
    remaining,      \* remaining_configs not yet iterated, core.py:173-174
    configurator,   \* the configurator object of the current iteration, core.py:160
    cfgpc,          \* position inside configurator.configure()
    ops,            \* backend operations issued by the current configure() call
    result,         \* what initialize() returned: "True" or "False", "none" before that
    trace,          \* history of configurator events and device operations
    device,         \* the state of the device behind the controller
    frame           \* the locals of the running configure() call

vars == << config, device_serial, env, pc, idx, total_count, success_count,
           remaining, configurator, cfgpc, ops, result, trace, device, frame >>

Event(e, k, r) == [ev |-> e, key |-> k, res |-> r]

(***************************************************************************)
(* BaseConfigurator                                                        *)
(***************************************************************************)
\* variant of BaseConfiguratorInit: the controller attribute is inspected first
BaseConfiguratorInit_controllerFirst(k, e, fragment) ==
    IF e.controller # Absent
    THEN [key |-> k, env |-> e, env_controller |-> e.controller, config |-> fragment]
    ELSE IF e.base_env # Absent
    THEN [key |-> k, env |-> e, env_controller |-> e.base_env, config |-> fragment]
    ELSE [key |-> k, env |-> NullEnv, env_controller |-> e.id, config |-> fragment]

\* base_configurator.py:17-39, BaseConfigurator.__init__
BaseConfiguratorInit(k, e, fragment) ==
    IF e.base_env # Absent
    THEN [key |-> k, env |-> e, env_controller |-> e.base_env, config |-> fragment]
    ELSE IF e.controller # Absent
    THEN [key |-> k, env |-> e, env_controller |-> e.controller, config |-> fragment]
    ELSE [key |-> k, env |-> NullEnv, env_controller |-> e.id, config |-> fragment]

\* variant of EnsureEnvironmentRaises: configure() does not check the controller
EnsureEnvironmentRaises_never(c) == FALSE

\* base_configurator.py:41-44, _ensure_environment raises iff "not self.env_controller"
EnsureEnvironmentRaises(c) == c.env_controller = Null

(***************************************************************************)
(* EmulatorInitializer                                                     *)
(***************************************************************************)
\* core.py:24-57, the state after EmulatorInitializer(...) returned
Init ==
    /\ config \in Configurations
    /\ device_serial \in DeviceSerials
    /\ env = NullEnv
    /\ pc = "setup_adb"
    /\ idx = 1
    /\ total_count = 0
    /\ success_count = 0
    /\ remaining = {}
    /\ configurator = NoConfigurator
    /\ cfgpc = "none"
    /\ ops = 0
    /\ result = "none"
    /\ trace = << >>
    /\ device = NoDevice
    /\ frame = NoFrame

\* variant of CriticalError: the failure of the bring-up is logged and
\* swallowed, and initialize() goes on to the configurators
CriticalError_swallowed ==
    /\ pc' = "loop"
    /\ UNCHANGED << device, frame, config, device_serial, env, idx, total_count, success_count,
                    remaining, configurator, cfgpc, ops, result, trace >>

\* core.py:186-188, the outer except of initialize(): return False
CriticalError ==
    /\ pc' = "done"
    /\ result' = "False"
    /\ UNCHANGED << device, frame, config, device_serial, env, idx, total_count, success_count,
                    remaining, configurator, cfgpc, ops, trace >>

\* core.py:79-94, setup_environment: the "adb devices" check
SetupAdbDevices ==
    /\ pc = "setup_adb"
    /\ \E out \in {"os_error", "called_process_error", "lists_emulator", "no_emulator"} :
         IF out = "os_error"
         THEN CriticalError
         ELSE IF out = "no_emulator" /\ TargetsEmulator(device_serial)
         THEN CriticalError
         ELSE /\ pc' = "setup_connect"
              /\ UNCHANGED << device, frame, config, device_serial, env, idx, total_count,
                              success_count, remaining, configurator, cfgpc, ops,
                              result, trace >>

\* variant of SetupConnect: the exception of a failed connection is raised
\* again by initialize() and reaches its caller
SetupConnect_reraises ==
    /\ pc = "setup_connect"
    /\ \/ /\ pc' = "raised"
          /\ UNCHANGED << device, frame, config, device_serial, env, idx, total_count,
                          success_count, remaining, configurator, cfgpc, ops,
                          result, trace >>
       \/ /\ env' \in LaunchedEnvs
          /\ pc' = "loop"
          /\ UNCHANGED << device, frame, config, device_serial, idx, total_count,
                          success_count, remaining, configurator, cfgpc, ops,
                          result, trace >>

\* core.py:95-116, setup_environment: env_launcher.load_and_setup_env
SetupConnect ==
    /\ pc = "setup_connect"
    /\ \/ CriticalError
       \/ /\ env' \in LaunchedEnvs
          /\ pc' = "loop"
          /\ UNCHANGED << device, frame, config, device_serial, idx, total_count,
                          success_count, remaining, configurator, cfgpc, ops,
                          result, trace >>

\* core.py:155-156, the first entry of configuration_order at or after i whose
\* key is configured (Len + 1 when the for loop runs out of entries)
NextConfigured(i) ==
    LET later == {j \in i..Len(configuration_order) : configuration_order[j] \in DOMAIN config}
    IN  IF later = {} THEN Len(configuration_order) + 1
        ELSE CHOOSE j \in later : \A m \in later : j <= m

\* core.py:155-156, the iterations over entries whose key is not configured:
\* the loop moves on to the next configured entry without any effect
LoopSkip ==
    /\ pc = "loop"
    /\ idx <= Len(configuration_order)
    /\ configuration_order[idx] \notin DOMAIN config
    /\ idx' = NextConfigured(idx)
    /\ UNCHANGED << device, frame, config, device_serial, env, pc, total_count, success_count,
                    remaining, configurator, cfgpc, ops, result, trace >>

\* variant of LoopAttempt: the configured entry is attempted without being
\* counted
LoopAttempt_notCounted ==
    /\ pc = "loop"
    /\ idx <= Len(configuration_order)
    /\ configuration_order[idx] \in DOMAIN config
    /\ pc' = "new"
    /\ UNCHANGED << device, frame, config, device_serial, env, idx, total_count, success_count,
                    remaining, configurator, cfgpc, ops, result, trace >>

\* core.py:156-157, an entry whose key is configured: total_count += 1
LoopAttempt ==
    /\ pc = "loop"
    /\ idx <= Len(configuration_order)
    /\ configuration_order[idx] \in DOMAIN config
    /\ total_count' = total_count + 1
    /\ pc' = "new"
    /\ UNCHANGED << device, frame, config, device_serial, env, idx, success_count, remaining,
                    configurator, cfgpc, ops, result, trace >>

\* variant of NewConfigurator: the fragment handed to the configurator is taken
\* out of the configuration
NewConfigurator_takesFragment ==
    /\ pc = "new"
    /\ LET k == configuration_order[idx] IN
         /\ configurator' = BaseConfiguratorInit(k, env, config[k])
         /\ trace' = Append(trace, Event("new", k, Null))
         /\ config' = [config EXCEPT ![k] = Fragment(Null)]
    /\ pc' = "configure"
    /\ cfgpc' = "call"
    /\ ops' = 0
    /\ UNCHANGED << device, frame, device_serial, env, idx, total_count, success_count,
                    remaining, result >>

\* core.py:160-163, configurator = configurator_class(self.env, self.config[config_key])
NewConfigurator ==
    /\ pc = "new"
    /\ LET k == configuration_order[idx] IN
         /\ configurator' = BaseConfiguratorInit(k, env, config[k])
         /\ trace' = Append(trace, Event("new", k, Null))
    /\ pc' = "configure"
    /\ cfgpc' = "call"
    /\ ops' = 0
    /\ UNCHANGED << device, frame, config, device_serial, env, idx, total_count, success_count,
                    remaining, result >>

\* variant of CatchConfiguratorError: the exception of one configurator is not
\* caught per module and reaches the outer except of initialize()
CatchConfiguratorError_escapes ==
    /\ pc' = "done"
    /\ result' = "False"
    /\ UNCHANGED << idx, total_count, success_count, remaining >>

\* core.py:169-170, except Exception around one configurator: log and go on
CatchConfiguratorError ==
    /\ pc' = "loop"
    /\ idx' = idx + 1
    /\ UNCHANGED << result, total_count, success_count, remaining >>

\* variant of AfterConfigure: a module that returned True is not counted
AfterConfigure_notCounted(b) ==
    /\ pc' = "loop"
    /\ idx' = idx + 1
    /\ UNCHANGED << result, total_count, success_count, remaining >>

\* variant of AfterConfigure: a module that returned False is configured again
AfterConfigure_retry(b) ==
    /\ pc' = IF b THEN "loop" ELSE "new"
    /\ idx' = IF b THEN idx + 1 ELSE idx
    /\ success_count' = IF b THEN success_count + 1 ELSE success_count
    /\ UNCHANGED << result, total_count, remaining >>

\* core.py:164-168, the value configure() returned to initialize()
AfterConfigure(b) ==
    /\ pc' = "loop"
    /\ idx' = idx + 1
    /\ success_count' = IF b THEN success_count + 1 ELSE success_count
    /\ UNCHANGED << result, total_count, remaining >>

\* core.py:191-285, configure_<key>() has no try: an exception of configure()
\* reaches the caller of the backward compatibility method
CompatPropagate ==
    /\ pc' = "compat_raised"
    /\ UNCHANGED << idx, result, total_count, success_count, remaining >>

\* core.py:191-285, configure_<key>() drops the value configure() returned
CompatReturn ==
    /\ pc' = "compat_done"
    /\ UNCHANGED << idx, result, total_count, success_count, remaining >>

\* a configure() call is running, made by initialize() or by configure_<key>()
InConfigure == pc \in {"configure", "compat_configure"}

\* variant of ConfigureCall: the RuntimeError of _ensure_environment is not
\* caught per module and ends the run
ConfigureCall_abortsRun ==
    /\ InConfigure
    /\ cfgpc = "call"
    /\ IF EnsureEnvironmentRaises(configurator)
       THEN /\ trace' = trace \o << Event("call", configurator.key, Null),
                                    Event("end", configurator.key, "raised") >>
            /\ cfgpc' = "none"
            /\ configurator' = NoConfigurator
            /\ IF pc = "configure" THEN CatchConfiguratorError_escapes ELSE CompatPropagate
       ELSE /\ trace' = Append(trace, Event("call", configurator.key, Null))
            /\ cfgpc' = "body"
            /\ UNCHANGED << configurator, pc, idx, result, total_count,
                            success_count, remaining >>
    /\ UNCHANGED << device, frame, config, device_serial, env, ops >>

\* <X>Configurator.configure, first statement: self._ensure_environment()
ConfigureCall ==
    /\ InConfigure
    /\ cfgpc = "call"
    /\ IF EnsureEnvironmentRaises(configurator)
       THEN /\ trace' = trace \o << Event("call", configurator.key, Null),
                                    Event("end", configurator.key, "raised") >>
            /\ cfgpc' = "none"
            /\ configurator' = NoConfigurator
            /\ IF pc = "configure" THEN CatchConfiguratorError ELSE CompatPropagate
       ELSE /\ trace' = Append(trace, Event("call", configurator.key, Null))
            /\ cfgpc' = "body"
            /\ UNCHANGED << configurator, pc, idx, result, total_count,
                            success_count, remaining >>
    /\ UNCHANGED << device, frame, config, device_serial, env, ops >>

\* variant of BackendOp: the request comes from work that a configurator whose
\* configure() already returned left running
BackendOp_stale ==
    /\ InConfigure
    /\ cfgpc = "body"
    /\ ops < MaxOps
    /\ ops' = ops + 1
    /\ \E k \in {trace[i].key : i \in {j \in DOMAIN trace : trace[j].ev = "end"}} \cup {configurator.key} :
         trace' = Append(trace, Event("op", k, Null))
    /\ UNCHANGED << device, frame, config, device_serial, env, pc, idx, total_count,
                    success_count, remaining, configurator, cfgpc, result >>

\* <X>Configurator.configure, try body: one request to the device backend
BackendOp ==
    /\ InConfigure
    /\ cfgpc = "body"
    /\ ops < MaxOps
    /\ ops' = ops + 1
    /\ trace' = Append(trace, Event("op", configurator.key, Null))
    /\ UNCHANGED << device, frame, config, device_serial, env, pc, idx, total_count,
                    success_count, remaining, configurator, cfgpc, result >>

\* <X>Configurator.configure, return True (end of the try body) or return
\* False (a failed precondition, or the except Exception of configure)
ConfigureReturn ==
    /\ InConfigure
    /\ cfgpc = "body"
    /\ \E b \in BOOLEAN :
         /\ trace' = Append(trace, Event("end", configurator.key, IF b THEN "true" ELSE "false"))
         /\ IF pc = "configure" THEN AfterConfigure(b) ELSE CompatReturn
    /\ cfgpc' = "none"
    /\ configurator' = NoConfigurator
    /\ UNCHANGED << device, frame, config, device_serial, env, ops >>

\* core.py:173, remaining_configs = set(self.config.keys()) - {...}
LoopExit ==
    /\ pc = "loop"
    /\ idx = Len(configuration_order) + 1
    /\ remaining' = (DOMAIN config) \ OrderKeys
    /\ pc' = "remaining"
    /\ UNCHANGED << device, frame, config, device_serial, env, idx, total_count, success_count,
                    configurator, cfgpc, ops, result, trace >>

\* variant of RemainingStep: a key without configurator counts as a failure
RemainingStep_failure ==
    /\ pc = "remaining"
    /\ \E k \in remaining :
         /\ remaining' = remaining \ {k}
         /\ trace' = Append(trace, Event("unknown", k, Null))
    /\ total_count' = total_count + 1
    /\ UNCHANGED << device, frame, config, device_serial, env, pc, idx, configurator, cfgpc,
                    ops, result, success_count >>

\* core.py:174-177, one iteration over remaining_configs (a set: any order)
RemainingStep ==
    /\ pc = "remaining"
    /\ \E k \in remaining :
         /\ remaining' = remaining \ {k}
         /\ trace' = Append(trace, Event("unknown", k, Null))
    /\ total_count' = total_count + 1
    /\ success_count' = success_count + 1
    /\ UNCHANGED << device, frame, config, device_serial, env, pc, idx, configurator, cfgpc,
                    ops, result >>

\* variant of Verdict: the run passes as soon as one module succeeded
Verdict_anySuccess ==
    /\ pc = "remaining"
    /\ remaining = {}
    /\ result' = IF success_count > 0 \/ total_count = 0 THEN "True" ELSE "False"
    /\ pc' = "done"
    /\ UNCHANGED << device, frame, config, device_serial, env, idx, total_count, success_count,
                    remaining, configurator, cfgpc, ops, trace >>

\* core.py:179-184, the verdict
Verdict ==
    /\ pc = "remaining"
    /\ remaining = {}
    /\ result' = IF success_count = total_count THEN "True" ELSE "False"
    /\ pc' = "done"
    /\ UNCHANGED << device, frame, config, device_serial, env, idx, total_count, success_count,
                    remaining, configurator, cfgpc, ops, trace >>

Next ==
    \/ SetupAdbDevices
    \/ SetupConnect
    \/ LoopSkip
    \/ LoopAttempt
    \/ NewConfigurator
    \/ ConfigureCall
    \/ BackendOp
    \/ ConfigureReturn
    \/ LoopExit
    \/ RemainingStep
    \/ Verdict

Spec == Init /\ [][Next]_vars

(***************************************************************************)
(* The backward compatibility methods configure_<key>(), called on an      *)
(* initializer whose self.env is None (core.py:52) or holds an environment *)
(* of any of the shapes BaseConfigurator accepts.                          *)
(***************************************************************************)
InitCompat ==
    /\ config \in Configurations
    /\ device_serial = "none"
    /\ env \in EnvShapes
    /\ pc = "compat"
    /\ idx = 1
    /\ total_count = 0
    /\ success_count = 0
    /\ remaining = {}
    /\ configurator = NoConfigurator
    /\ cfgpc = "none"
    /\ ops = 0
    /\ result = "none"
    /\ trace = << >>
    /\ device = NoDevice
    /\ frame = NoFrame

\* core.py:191-285, configure_<key>(): if '<key>' in self.config, build the
\* configurator from self.env and self.config['<key>'] and call configure()
CompatCall ==
    /\ pc = "compat"
    /\ \E k \in OrderKeys :
         IF k \in DOMAIN config
         THEN /\ configurator' = BaseConfiguratorInit(k, env, config[k])
              /\ trace' = Append(trace, Event("new", k, Null))
              /\ pc' = "compat_configure"
              /\ cfgpc' = "call"
         ELSE /\ pc' = "compat_done"
              /\ UNCHANGED << configurator, trace, cfgpc >>
    /\ UNCHANGED << device, frame, config, device_serial, env, idx, total_count, success_count,
                    remaining, ops, result >>

NextCompat ==
    \/ CompatCall
    \/ ConfigureCall
    \/ BackendOp
    \/ ConfigureReturn

SpecCompat == InitCompat /\ [][NextCompat]_vars

(***************************************************************************)
(* Observations on the history of a run.                                   *)
(***************************************************************************)
\* positions of the events e of key k in the history
Indices(e, k) == {i \in DOMAIN trace : trace[i].ev = e /\ trace[i].key = k}

Count(e, k) == Cardinality(Indices(e, k))

\* how the configure() call of key k ended: "true", "false", "raised", or "none"
Outcome(k) ==
    IF Indices("end", k) = {} THEN "none"
    ELSE trace[CHOOSE i \in Indices("end", k) : TRUE].res

\* the keys of the priority list that the configuration holds
Present == (DOMAIN config) \cap OrderKeys

\* the keys counted in attempted / in succeeded, read off the history
AttemptedKeys == {k \in DOMAIN config : Count("new", k) > 0 \/ Count("unknown", k) > 0}

SucceededKeys == {k \in DOMAIN config : Outcome(k) = "true" \/ Count("unknown", k) > 0}

\* setup_environment returned: self.env holds the launched environment
EnvironmentUp == env # NullEnv

(***************************************************************************)
(* C1: when a configurator raises, initialize() still instantiates and     *)
(* invokes every later configurator of the priority list whose key is      *)
(* present, in priority order, and when it returns attempted counts the    *)
(* failed module and succeeded does not.                                   *)
(***************************************************************************)
C1_RaiseIsolated ==
    pc = "done" =>
      \A k \in Present : Outcome(k) = "raised" =>
        /\ \A k2 \in Present : Position(k2) > Position(k) =>
             /\ Count("new", k2) = 1
             /\ Count("call", k2) = 1
             /\ \A i \in Indices("end", k), j \in Indices("new", k2) : i < j
        /\ \A k2, k3 \in Present :
             (Position(k) < Position(k2) /\ Position(k2) < Position(k3)) =>
               \A i \in Indices("end", k2), j \in Indices("new", k3) : i < j
        /\ k \in AttemptedKeys
        /\ k \notin SucceededKeys
        /\ total_count = Cardinality(AttemptedKeys)
        /\ success_count = Cardinality(SucceededKeys)

C1_Witness ==
    /\ pc = "done"
    /\ \E k, k2 \in Present :
         /\ Outcome(k) = "raised"
         /\ Position(k2) > Position(k)
         /\ Count("call", k2) = 1
    /\ total_count > success_count

(***************************************************************************)
(* C2: when the environment bring-up fails, initialize() returns False, no *)
(* configurator is instantiated or invoked, attempted stays 0 and no       *)
(* configurator issues a device operation.                                 *)
(***************************************************************************)
C2_BringUpFailure ==
    /\ (~EnvironmentUp) =>
         /\ total_count = 0
         /\ success_count = 0
         /\ trace = << >>
         /\ configurator = NoConfigurator
    /\ (pc = "done" /\ ~EnvironmentUp) => result = "False"

C2_Witness ==
    /\ pc = "done"
    /\ ~EnvironmentUp
    /\ Present # {}
    /\ result = "False"

(***************************************************************************)
(* C3: after a successful bring-up the verdict is True exactly when        *)
(* succeeded = attempted, and it is False exactly when the configurator of *)
(* some present key of the priority list returned False or raised.         *)
(***************************************************************************)
C3_Verdict ==
    (pc = "done" /\ EnvironmentUp) =>
      /\ result \in {"True", "False"}
      /\ (result = "True") <=> (success_count = total_count)
      /\ (result = "False") <=> (\E k \in Present : Outcome(k) \in {"false", "raised"})

C3_Witness ==
    /\ pc = "done"
    /\ EnvironmentUp
    /\ result = "False"
    /\ \E k, k2 \in Present : Outcome(k) = "false" /\ Outcome(k2) = "true"

(***************************************************************************)
(* C4: for every configuration in which the configurator of every present  *)
(* key of the priority list returns True, initialize() returns True.       *)
(* C4_Original is the statement as made, for every run; C4_AllTrue is the  *)
(* statement for the runs whose environment bring-up succeeded.            *)
(***************************************************************************)
C4_Original ==
    (pc = "done" /\ \A k \in Present : Outcome(k) = "true") => result = "True"

C4_AllTrue ==
    (pc = "done" /\ EnvironmentUp /\ \A k \in Present : Outcome(k) = "true")
        => result = "True"

C4_Witness ==
    /\ pc = "done"
    /\ EnvironmentUp
    /\ Cardinality(Present) >= 2
    /\ \A k \in Present : Outcome(k) = "true"
    /\ result = "True"

(***************************************************************************)
(* C5: configurators run in the order datetime, contacts, sms, calendar,   *)
(* recipe, tasks, expense, music, joplin, osmand, audio_recorder, markor,  *)
(* files, opentracks, gallery, system: of two present keys the earlier one *)
(* has finished configure() before the later one is instantiated, system   *)
(* comes after every other configurator, and the keys outside the list are *)
(* handled only after all configurators have finished.                     *)
(***************************************************************************)
PriorityList ==
    << "datetime", "contacts", "sms", "calendar", "recipe", "tasks",
       "expense", "music", "joplin", "osmand", "audio_recorder", "markor",
       "files", "opentracks", "gallery", "system" >>

RankOf ==
    [k \in {PriorityList[i] : i \in 1..Len(PriorityList)} |->
        CHOOSE i \in 1..Len(PriorityList) : PriorityList[i] = k]

Rank(k) == RankOf[k]

EndedBefore(k, j) == \E i \in Indices("end", k) : i < j

C5_PriorityOrder ==
    /\ \A i \in DOMAIN trace :
         (i > 1 /\ trace[i].key \in OrderKeys) =>
            (trace[i-1].key \in OrderKeys /\ Rank(trace[i-1].key) <= Rank(trace[i].key))
    /\ \A j \in DOMAIN trace : trace[j].ev = "new" =>
         \A k \in Present : Rank(k) < Rank(trace[j].key) => EndedBefore(k, j)
    /\ \A j \in DOMAIN trace : trace[j].key = "system" =>
         \A k \in Present \ {"system"} : EndedBefore(k, j)
    /\ \A j \in DOMAIN trace : trace[j].ev = "unknown" =>
         /\ \A k \in Present : EndedBefore(k, j)
         /\ \A l \in DOMAIN trace : l > j => trace[l].ev = "unknown"

C5_Witness ==
    /\ pc = "done"
    /\ "system" \in Present
    /\ Cardinality(Present) >= 2
    /\ \A k \in Present : Outcome(k) # "none"
    /\ \E j \in DOMAIN trace : trace[j].ev = "unknown"

(***************************************************************************)
(* C6: a configuration key outside the priority list adds one to attempted *)
(* and one to succeeded, and no configurator is instantiated or invoked    *)
(* and no device operation is issued for it; a configuration made of such  *)
(* keys only makes initialize() return True.                               *)
(* C6_Original is the statement as made, for every run; C6_UnknownKey is   *)
(* the statement for the runs whose environment bring-up succeeded.        *)
(***************************************************************************)
Unrecognized == (DOMAIN config) \ OrderKeys

UnknownHandled == {k \in Unrecognized : Count("unknown", k) > 0}

NothingRunForUnknown ==
    \A k \in Unrecognized :
        /\ Count("new", k) = 0
        /\ Count("call", k) = 0
        /\ Count("op", k) = 0
        /\ configurator.key # k
        /\ Count("unknown", k) <= 1

UnknownCounted ==
    /\ total_count = Cardinality({k \in Present : Count("new", k) > 0}) + Cardinality(UnknownHandled)
    /\ success_count = Cardinality({k \in Present : Outcome(k) = "true"}) + Cardinality(UnknownHandled)
    /\ UnknownHandled = Unrecognized

C6_Original ==
    /\ NothingRunForUnknown
    /\ pc = "done" =>
         /\ UnknownCounted
         /\ (Unrecognized # {} /\ Present = {}) => result = "True"

C6_UnknownKey ==
    /\ NothingRunForUnknown
    /\ (pc = "done" /\ EnvironmentUp) =>
         /\ UnknownCounted
         /\ (Unrecognized # {} /\ Present = {}) => result = "True"

C6_Witness ==
    /\ pc = "done"
    /\ EnvironmentUp
    /\ Unrecognized = {"unknown_module"}
    /\ Present = {}
    /\ total_count = 1
    /\ success_count = 1
    /\ trace = << Event("unknown", "unknown_module", Null) >>
    /\ result = "True"

(***************************************************************************)
(* C7: in one initialize() run every present key of the priority list gets *)
(* exactly one configurator instance, built from the fragment of that key, *)
(* and exactly one configure() call; an absent key gets none; a            *)
(* configurator that failed is not invoked again.                          *)
(* C7_Original is the statement as made, for every run; C7_OncePerKey is   *)
(* the statement for the runs whose environment bring-up succeeded, with   *)
(* no instance at all in the other runs.                                   *)
(***************************************************************************)
AtMostOncePerKey ==
    /\ \A i, j \in DOMAIN trace :
         (i < j /\ trace[i].key = trace[j].key) => trace[i].ev # trace[j].ev \/ trace[i].ev = "op"
    /\ \A i \in DOMAIN trace :
         trace[i].key \in OrderKeys => trace[i].key \in DOMAIN config
    /\ configurator.key # Null =>
         /\ configurator.key \in Present
         /\ configurator.config = config[configurator.key]

ExactlyOncePerKey ==
    \A k \in Present : Count("new", k) = 1 /\ Count("call", k) = 1

C7_Original ==
    /\ AtMostOncePerKey
    /\ pc = "done" => ExactlyOncePerKey

C7_OncePerKey ==
    /\ AtMostOncePerKey
    /\ (pc = "done" /\ EnvironmentUp) => ExactlyOncePerKey
    /\ (~EnvironmentUp) => \A k \in Present : Count("new", k) = 0 /\ Count("call", k) = 0

C7_Witness ==
    /\ pc = "done"
    /\ EnvironmentUp
    /\ Cardinality(Present) >= 2
    /\ \E k \in OrderKeys : k \notin DOMAIN config /\ Count("new", k) = 0
    /\ \E k \in Present : Outcome(k) = "false"
    /\ ExactlyOncePerKey

(***************************************************************************)
(* C8: at most one configurator is between the start and the end of its    *)
(* configure() call, every device operation is issued by the configurator  *)
(* whose configure() call is running, and no operation of one configurator *)
(* falls between two operations of another one.                            *)
(***************************************************************************)
Active == {k \in {trace[i].key : i \in DOMAIN trace} : Count("call", k) > Count("end", k)}

IssuedInsideCall(i) ==
    \E c \in Indices("call", trace[i].key) :
        /\ c < i
        /\ \A e \in Indices("end", trace[i].key) : e < c \/ e > i

C8_OneAtATime ==
    /\ Cardinality(Active) <= 1
    /\ \A i \in DOMAIN trace : trace[i].ev = "op" => IssuedInsideCall(i)
    /\ \A k \in Present :
         LET mine == Indices("op", k) IN
           \A j \in DOMAIN trace :
             (trace[j].ev = "op" /\ trace[j].key # k) =>
               \/ \A i \in mine : i < j
               \/ \A l \in mine : j < l

C8_Witness ==
    /\ pc = "configure"
    /\ cfgpc = "body"
    /\ ops >= 1
    /\ Active = {configurator.key}
    /\ \E k \in Present : k # configurator.key /\ Count("op", k) >= 2

(***************************************************************************)
(* C9: resolving an environment from which no controller can be extracted  *)
(* fails at resolution time, so that no configurator holds a null          *)
(* controller (C9_Original).  C9_DeferredFailure: the constructor always   *)
(* yields a configurator, which holds a null controller for such an        *)
(* environment; its configure() raises at _ensure_environment before any   *)
(* device operation, and configure() of a configurator with a controller   *)
(* does not raise.                                                         *)
(***************************************************************************)
ResolvedController == BaseConfiguratorInit(Null, env, Fragment(Null)).env_controller

C9_Original ==
    configurator.key # Null => configurator.env_controller # Null

C9_DeferredFailure ==
    /\ pc = "compat_configure" =>
         (configurator.key # Null /\ configurator.env_controller = ResolvedController)
    /\ (configurator.key # Null /\ configurator.env_controller = Null) =>
         (cfgpc = "call" /\ ops = 0)
    /\ \A i \in DOMAIN trace :
         /\ trace[i].ev = "op" => ResolvedController # Null
         /\ trace[i].ev = "end" => (trace[i].res = "raised" <=> ResolvedController = Null)
    /\ pc = "compat_raised" =>
         /\ ResolvedController = Null
         /\ \A i \in DOMAIN trace : trace[i].ev # "op"

C9_Witness ==
    /\ pc = "compat_raised"
    /\ env # NullEnv
    /\ env.base_env = Null
    /\ Len(trace) = 3
    /\ trace[3].res = "raised"

(***************************************************************************)
(* C10: the constructor inspects the shapes in a fixed precedence: with a  *)
(* base_env relation the controller is that base_env and the input is kept *)
(* as rich handle, also when a controller relation exists; else with a     *)
(* controller relation the controller is that one and the input is kept;   *)
(* else the input itself is the controller and the rich handle is null.    *)
(***************************************************************************)
C10_Precedence ==
    configurator.key # Null =>
      /\ env.base_env # Absent =>
           (configurator.env_controller = env.base_env /\ configurator.env = env)
      /\ (env.base_env = Absent /\ env.controller # Absent) =>
           (configurator.env_controller = env.controller /\ configurator.env = env)
      /\ (env.base_env = Absent /\ env.controller = Absent) =>
           (configurator.env_controller = env.id /\ configurator.env = NullEnv)

C10_Witness ==
    /\ configurator.key # Null
    /\ env.base_env = "base_ctl"
    /\ env.controller = "ctl"
    /\ configurator.env_controller = "base_ctl"
    /\ configurator.env = env

(***************************************************************************)
(* The lifecycle of the sixteen configurators: for each configure(), the   *)
(* sub-steps of its try body in program order, the option of the module    *)
(* fragment that switches each of them on, and whether an exception of the *)
(* sub-step is absorbed inside its helper or reaches the except of         *)
(* configure().                                                            *)
(***************************************************************************)
\* largest number of options a module fragment switches on
MaxFlags == 2

Step(n, s, f, u, g, t) ==
    [name |-> n, stage |-> s, flag |-> f, unless |-> u, guarded |-> g, throws |-> t]

\* a sub-step whose helper wraps its backend requests in try / except Exception
Absorbing(n, s, f) == Step(n, s, f, "none", TRUE, TRUE)

\* a sub-step that issues a backend request outside any try of its helper
Propagating(n, s, f) == Step(n, s, f, "none", FALSE, TRUE)

\* a sub-step that issues no backend request at all
Silent(n, s, f) == Step(n, s, f, "none", TRUE, FALSE)

\* variant of Setup: an exception of the precondition helper makes it return
\* False in every configurator
Setup_strict(n, g, t) == Step(n, "precondition", "always", "none", FALSE, t)

\* the precondition helper _setup_<x>_app / _is_app_installed: g tells whether
\* an exception after the package check lets configure() go on (return True),
\* t whether the helper issues any request after the package check
Setup(n, g, t) == Step(n, "precondition", "always", "none", g, t)

\* <x>_configurator.py, the try body of each configure() and its helpers
Lifecycle ==
    [ datetime |-> << Absorbing("_disable_auto_settings", "explicit", "disable_auto_settings"),
                      Absorbing("_enable_24_hour_format", "explicit", "use_24_hour_format"),
                      Absorbing("_set_timezone", "explicit", "timezone"),
                      Absorbing("_set_specific_datetime", "explicit", "datetime"),
                      Step("_set_random_datetime", "random", "use_random_datetime", "datetime", TRUE, TRUE) >>,
      contacts |-> << Propagating("clear_contacts", "clear", "clear_contacts"),
                      Absorbing("_add_contacts", "explicit", "add_contacts"),
                      Absorbing("_verify_contacts", "refresh", "verify_contacts") >>,
      sms |-> << Absorbing("_clear_all_sms", "clear", "clear_messages"),
                 Absorbing("_add_specific_messages", "explicit", "add_messages"),
                 Absorbing("_add_random_conversations", "random", "add_random_conversations") >>,
      calendar |-> << Setup("_setup_calendar_app", TRUE, TRUE),
                      Absorbing("_clear_calendar_events", "clear", "clear_events"),
                      Absorbing("_add_specific_events", "explicit", "add_events"),
                      Absorbing("_add_random_events", "random", "add_random_events"),
                      Absorbing("_restart_calendar_app", "refresh", "always") >>,
      recipe |-> << Setup("_setup_recipe_app", TRUE, TRUE),
                    Absorbing("_clear_recipes", "clear", "clear_recipes"),
                    Absorbing("_add_specific_recipes", "explicit", "add_recipes"),
                    Absorbing("_add_random_recipes", "random", "add_random_recipes"),
                    Absorbing("_restart_recipe_app", "refresh", "always") >>,
      tasks |-> << Setup("_setup_tasks_app", TRUE, TRUE),
                   Absorbing("_clear_tasks", "clear", "clear_tasks"),
                   Absorbing("_add_specific_tasks", "explicit", "add_tasks"),
                   Absorbing("_add_random_tasks", "random", "add_random_tasks"),
                   Absorbing("_restart_tasks_app", "refresh", "always") >>,
      expense |-> << Setup("_is_app_installed", FALSE, FALSE),
                     Propagating("_initialize_database", "prepare", "always"),
                     Propagating("_clear_expenses", "clear", "clear_expenses"),
                     Propagating("_add_expenses", "explicit", "add_expenses"),
                     Propagating("_add_random_expenses", "random", "add_random_expenses"),
                     Propagating("_relaunch_app", "refresh", "always") >>,
      music |-> << Setup("_setup_music_app", FALSE, TRUE),
                   Absorbing("_clear_music", "clear", "clear_music"),
                   Absorbing("_add_music_files", "explicit", "add_music_files"),
                   Absorbing("_scan_music_directory", "refresh", "add_music_files"),
                   Propagating("_create_playlists.launch_app", "explicit", "add_playlists"),
                   Absorbing("_create_playlists", "explicit", "add_playlists"),
                   Absorbing("_set_queue", "explicit", "set_queue"),
                   Absorbing("_restart_music_app", "refresh", "always") >>,
      joplin |-> << Setup("_setup_joplin_app", FALSE, TRUE),
                    Absorbing("_clear_notes", "clear", "clear_notes"),
                    Absorbing("_add_folders", "explicit", "add_folders"),
                    Absorbing("_add_notes", "explicit", "add_notes"),
                    Silent("_add_random_notes", "random", "add_random_notes"),
                    Absorbing("_restart_joplin_app", "refresh", "always") >>,
      osmand |-> << Setup("_setup_osmand_app", FALSE, FALSE),
                    Propagating("_initialize_app", "prepare", "always"),
                    Absorbing("_clear_favorites", "clear", "clear_favorites"),
                    Absorbing("_add_favorites", "explicit", "add_favorites") >>,
      audio_recorder |-> << Setup("_setup_audio_recorder_app", FALSE, FALSE),
                            Absorbing("_clear_recordings", "clear", "clear_recordings") >>,
      markor |-> << Setup("_setup_markor_app", FALSE, TRUE),
                    Absorbing("_clear_notes", "clear", "clear_notes"),
                    Absorbing("_add_folders", "explicit", "add_folders"),
                    Propagating("_add_notes", "explicit", "add_notes"),
                    Absorbing("_add_random_notes", "random", "add_random_notes") >>,
      files |-> << Absorbing("set_root_if_needed", "prepare", "always"),
                   Absorbing("_clear_folders", "clear", "clear_folders"),
                   Absorbing("_create_folders", "explicit", "create_folders"),
                   Absorbing("_add_files", "explicit", "add_files"),
                   Absorbing("_copy_files", "explicit", "copy_files"),
                   Propagating("_add_random_files", "random", "add_random_files") >>,
      opentracks |-> << Setup("_setup_opentracks_app", FALSE, FALSE),
                        Absorbing("_clear_activities", "clear", "clear_activities"),
                        Absorbing("_add_activities", "explicit", "add_activities"),
                        Absorbing("_add_random_activities", "random", "add_random_activities") >>,
      gallery |-> << Absorbing("_clear_images", "clear", "clear_images"),
                     Absorbing("_add_images", "explicit", "add_images") >>,
      system |-> << Absorbing("_configure_brightness", "explicit", "brightness"),
                    Absorbing("_configure_wifi", "explicit", "wifi"),
                    Absorbing("_configure_bluetooth", "explicit", "bluetooth"),
                    Absorbing("_configure_clipboard", "explicit", "clipboard"),
                    Absorbing("_configure_airplane_mode", "explicit", "airplane_mode"),
                    Absorbing("_close_all_apps", "refresh", "close_all_apps"),
                    Absorbing("_open_app", "refresh", "open_app"),
                    Step("_press_home", "refresh", "close_all_apps", "open_app", TRUE, TRUE) >> ]

\* the options of the fragment of key k that configure() reads
Flags(k) ==
    ({Lifecycle[k][i].flag : i \in DOMAIN Lifecycle[k]} \cup
     {Lifecycle[k][i].unless : i \in DOMAIN Lifecycle[k]}) \ {"always", "none"}

\* the configurators whose configure() starts with a check of the installed packages
AppKeys == {k \in OrderKeys : Lifecycle[k][1].stage = "precondition"}

\* a module fragment, as far as configure() branches on it: the options that
\* self.config.get(option, default) finds truthy
LifecycleFragment(k, on) == [module |-> k, on |-> on]

LifecycleFragments(k) ==
    {LifecycleFragment(k, on) : on \in {S \in SUBSET Flags(k) : Cardinality(S) <= MaxFlags}}

\* the configurations of the lifecycle runs: one module, alone or followed by
\* the gallery module with both of its options on
LifecycleConfigs ==
    UNION {{[x \in {k} |-> f], [x \in {k, "gallery"} |-> IF x = k THEN f ELSE LifecycleFragment("gallery", Flags("gallery"))]} :
             <<k, f>> \in UNION {{<<k2, f2>> : f2 \in LifecycleFragments(k2)} : k2 \in OrderKeys}}

\* one entry of the record of what reached the device
Logged(k, st, out) ==
    [key |-> k, name |-> st.name, stage |-> st.stage, absorbed |-> st.guarded, out |-> out]

InitLifecycle ==
    /\ config \in LifecycleConfigs
    /\ device_serial = "emulator-5554"
    /\ env = NullEnv
    /\ pc = "setup_adb"
    /\ idx = 1
    /\ total_count = 0
    /\ success_count = 0
    /\ remaining = {}
    /\ configurator = NoConfigurator
    /\ cfgpc = "none"
    /\ ops = 0
    /\ result = "none"
    /\ trace = << >>
    /\ device \in {[packages |-> P, log |-> << >>] : P \in SUBSET ((DOMAIN config) \cap AppKeys)}
    /\ frame = NoFrame

\* configure() reads self.config.get(flag): the sub-step runs if its option is on
Enabled(c, st) ==
    /\ st.flag = "always" \/ st.flag \in c.config.on
    /\ st.unless \notin c.config.on

\* variant of NextStep: the sub-steps of the try body are taken from the last
\* to the first
NextStep_reversed(c, i) ==
    LET later == {j \in DOMAIN Lifecycle[c.key] : (i = 0 \/ j < i) /\ Enabled(c, Lifecycle[c.key][j])}
    IN  IF later = {} THEN 0 ELSE CHOOSE j \in later : \A m \in later : j >= m

\* the next sub-step of the running configure() that its fragment switches on,
\* 0 when the try body has reached its return True
NextStep(c, i) ==
    LET later == {j \in DOMAIN Lifecycle[c.key] : j > i /\ Enabled(c, Lifecycle[c.key][j])}
    IN  IF later = {} THEN 0 ELSE CHOOSE j \in later : \A m \in later : j <= m

\* configure() returns b to its caller
ReturnFromConfigure(b) ==
    /\ trace' = Append(trace, Event("end", configurator.key, IF b THEN "true" ELSE "false"))
    /\ IF pc = "configure" THEN AfterConfigure(b) ELSE CompatReturn
    /\ cfgpc' = "none"
    /\ configurator' = NoConfigurator
    /\ frame' = NoFrame
    /\ UNCHANGED << config, device_serial, env, ops >>

\* configure() goes on with the sub-step after j
Proceed(j) ==
    /\ frame' = [step |-> j]
    /\ UNCHANGED << config, device_serial, env, pc, idx, total_count, success_count,
                    remaining, configurator, cfgpc, ops, result, trace >>

\* helpers.py:17-45, get_all_package_names, installed over adb_utils: the
\* package list, or [] when the request raised
PackageList(query) == IF query = "listed" THEN device.packages ELSE {}

\* variant of Precondition: a configurator whose application is absent goes on
\* with its clear and populate steps
Precondition_goesOn ==
    /\ InConfigure
    /\ cfgpc = "body"
    /\ LET j == NextStep(configurator, frame.step) IN
         /\ j # 0
         /\ Lifecycle[configurator.key][j].stage = "precondition"
         /\ LET st == Lifecycle[configurator.key][j]
                k == configurator.key
            IN \E query \in {"listed", "failed"} :
                 IF k \notin PackageList(query)
                 THEN /\ device' = [device EXCEPT !.log = Append(@, Logged(k, st, "absent"))]
                      /\ Proceed(j)
                 ELSE /\ device' = [device EXCEPT !.log = Append(@, Logged(k, st, "ready"))]
                      /\ Proceed(j)

\* _setup_<x>_app / _is_app_installed and the "if not ...: return False" of
\* configure(): the package check, then the launch of the application
Precondition ==
    /\ InConfigure
    /\ cfgpc = "body"
    /\ LET j == NextStep(configurator, frame.step) IN
         /\ j # 0
         /\ Lifecycle[configurator.key][j].stage = "precondition"
         /\ LET st == Lifecycle[configurator.key][j]
                k == configurator.key
            IN \E query \in {"listed", "failed"} :
                 IF k \notin PackageList(query)
                 THEN /\ device' = [device EXCEPT !.log = Append(@, Logged(k, st, "absent"))]
                      /\ ReturnFromConfigure(FALSE)
                 ELSE \/ /\ device' = [device EXCEPT !.log = Append(@, Logged(k, st, "ready"))]
                         /\ Proceed(j)
                      \/ /\ st.throws
                         /\ device' = [device EXCEPT !.log = Append(@, Logged(k, st, "threw"))]
                         /\ IF st.guarded THEN Proceed(j) ELSE ReturnFromConfigure(FALSE)

\* variant of SubStep: an exception that no helper absorbs leaves configure()
SubStep_propagates ==
    /\ InConfigure
    /\ cfgpc = "body"
    /\ LET j == NextStep(configurator, frame.step) IN
         /\ j # 0
         /\ Lifecycle[configurator.key][j].stage # "precondition"
         /\ LET st == Lifecycle[configurator.key][j]
                k == configurator.key
            IN \/ /\ device' = [device EXCEPT !.log = Append(@, Logged(k, st, "ok"))]
                  /\ Proceed(j)
               \/ /\ st.throws
                  /\ device' = [device EXCEPT !.log = Append(@, Logged(k, st, "threw"))]
                  /\ IF st.guarded
                     THEN Proceed(j)
                     ELSE /\ trace' = Append(trace, Event("end", k, "raised"))
                          /\ cfgpc' = "none"
                          /\ configurator' = NoConfigurator
                          /\ frame' = NoFrame
                          /\ IF pc = "configure" THEN CatchConfiguratorError ELSE CompatPropagate
                          /\ UNCHANGED << config, device_serial, env, ops >>

\* variant of SubStep: every exception of a sub-step is absorbed and logged
SubStep_absorbsAll ==
    /\ InConfigure
    /\ cfgpc = "body"
    /\ LET j == NextStep(configurator, frame.step) IN
         /\ j # 0
         /\ Lifecycle[configurator.key][j].stage # "precondition"
         /\ LET st == Lifecycle[configurator.key][j]
                k == configurator.key
            IN \/ /\ device' = [device EXCEPT !.log = Append(@, Logged(k, st, "ok"))]
                  /\ Proceed(j)
               \/ /\ st.throws
                  /\ device' = [device EXCEPT !.log = Append(@, Logged(k, st, "threw"))]
                  /\ Proceed(j)

\* one sub-step of the try body of configure(): its requests go through, or one
\* of them raises and the exception is absorbed by the helper (the body goes
\* on) or reaches "except Exception: ... return False" of configure()
SubStep ==
    /\ InConfigure
    /\ cfgpc = "body"
    /\ LET j == NextStep(configurator, frame.step) IN
         /\ j # 0
         /\ Lifecycle[configurator.key][j].stage # "precondition"
         /\ LET st == Lifecycle[configurator.key][j]
                k == configurator.key
            IN \/ /\ device' = [device EXCEPT !.log = Append(@, Logged(k, st, "ok"))]
                  /\ Proceed(j)
               \/ /\ st.throws
                  /\ device' = [device EXCEPT !.log = Append(@, Logged(k, st, "threw"))]
                  /\ IF st.guarded THEN Proceed(j) ELSE ReturnFromConfigure(FALSE)

\* the end of the try body of configure(): return True
BodyEnd ==
    /\ InConfigure
    /\ cfgpc = "body"
    /\ NextStep(configurator, frame.step) = 0
    /\ ReturnFromConfigure(TRUE)
    /\ UNCHANGED device

NextLifecycle ==
    \/ SetupAdbDevices
    \/ SetupConnect
    \/ LoopSkip
    \/ LoopAttempt
    \/ NewConfigurator
    \/ ConfigureCall
    \/ Precondition
    \/ SubStep
    \/ BodyEnd
    \/ LoopExit
    \/ Verdict

SpecLifecycle == InitLifecycle /\ [][NextLifecycle]_vars

(***************************************************************************)
(* Observations on the record of what reached the device.                  *)
(***************************************************************************)
\* positions of the entries of key k with outcome out
LogIndices(k, out) == {i \in DOMAIN device.log : device.log[i].key = k /\ device.log[i].out = out}

\* a sub-step of configure() of key k raised
Threw(k) == LogIndices(k, "threw") # {}

\* a sub-step after the precondition raised, in a helper that absorbs it or not
FailedSubStep(k) ==
    \E i \in LogIndices(k, "threw") : device.log[i].stage # "precondition"

\* a sub-step after the precondition raised outside every try of its helper
FailedUnabsorbed(k) ==
    \E i \in LogIndices(k, "threw") :
        device.log[i].stage # "precondition" /\ ~device.log[i].absorbed

\* the precondition helper of key k returned False
Skipped(k) ==
    \/ LogIndices(k, "absent") # {}
    \/ \E i \in LogIndices(k, "threw") :
         device.log[i].stage = "precondition" /\ ~device.log[i].absorbed

\* configure() of key k returned and its precondition, if it has one, passed
PreconditionPassed(k) == Outcome(k) \in {"true", "false"} /\ ~Skipped(k)

(***************************************************************************)
(* C11: no error is propagated past the module boundary: configure()       *)
(* converts any failure inside its lifecycle into a boolean and never      *)
(* raises to its caller, a configurator with a null controller included.   *)
(* As stated this fails: with a null controller configure() raises.        *)
(***************************************************************************)
C11_Original ==
    \A i \in DOMAIN trace : trace[i].ev = "end" => trace[i].res # "raised"

(***************************************************************************)
(* C11, amended: configure() raises to its caller exactly when the         *)
(* configurator holds a null controller, and then before any request       *)
(* reaches the device; with a controller, every exception of a sub-step    *)
(* ends in a boolean return value.                                         *)
(***************************************************************************)
C11_BooleanBoundary ==
    \A i \in DOMAIN trace : trace[i].ev = "end" =>
        /\ trace[i].res \in {"true", "false", "raised"}
        /\ trace[i].res = "raised" <=> ResolvedController = Null
        /\ trace[i].res = "raised" =>
             \A j \in DOMAIN device.log : device.log[j].key # trace[i].key
        /\ FailedUnabsorbed(trace[i].key) => trace[i].res = "false"

C11_Witness ==
    \E k \in DOMAIN config :
        /\ FailedUnabsorbed(k)
        /\ Outcome(k) = "false"
        /\ pc = "done"

(***************************************************************************)
(* C12: when the precondition of a configurator finds its application      *)
(* absent (the package is not in the installed-package list, which is      *)
(* empty when the package query failed), configure() returns false without *)
(* raising, no clear, populate or refresh step reaches the device, and the *)
(* run goes on with the next configurator.                                 *)
(***************************************************************************)
C12_SkippedWhenAbsent ==
    \A k \in Present : \A i \in LogIndices(k, "absent") :
        /\ \A j \in DOMAIN device.log : j # i => device.log[j].key # k
        /\ Outcome(k) = "false"
        /\ pc = "done" =>
             \A k2 \in Present : Position(k2) > Position(k) =>
                 Count("new", k2) = 1 /\ Count("end", k2) = 1

C12_Witness ==
    /\ pc = "done"
    /\ \E k \in Present :
         /\ k \in device.packages
         /\ LogIndices(k, "absent") # {}
         /\ Position("gallery") > Position(k)
         /\ "gallery" \in Present
         /\ Outcome("gallery") = "true"
         /\ LogIndices("gallery", "ok") # {}

MaxItems == 2
\* largest random count a fragment asks for
MaxRandom == 2

\* sms_configurator.py:223-232, the number of sample contacts that
\* _add_random_conversations can open a conversation with
SmsContacts == 8

\* how the explicit items of a fragment reach the device:
\*  each             one request per item inside a try of its own
\*  each_needs_env   the same, but nothing is written without a full env object
\*  each_exposed     one request per item inside a try, after a folder check
\*                   that stands outside it
\*  bulk_fallback    items are converted one by one, inserted in one request,
\*                   and one by one if that request raised
\*  bulk_absorbed    converted one by one, inserted in one request inside a try
\*  bulk_propagating converted one by one, inserted in one request without try
ExplicitStyle ==
    [ datetime |-> "none", contacts |-> "each", sms |-> "each",
      calendar |-> "bulk_fallback", recipe |-> "each", tasks |-> "each",
      expense |-> "bulk_propagating", music |-> "each_needs_env",
      joplin |-> "bulk_absorbed", osmand |-> "each", audio_recorder |-> "none",
      markor |-> "each_exposed", files |-> "each", opentracks |-> "each",
      gallery |-> "each", system |-> "none" ]

\* how the random population of a configurator reaches the device:
\*  each, each_exposed, bulk_propagating as above
\*  external         one call of calendar_utils.add_random_events inside a try
\*  capped_each      one conversation per sample contact, at most SmsContacts
\*  stub             the helper only logs what it would add
RandomMode ==
    [ datetime |-> "none", contacts |-> "none", sms |-> "capped_each",
      calendar |-> "external", recipe |-> "each", tasks |-> "each",
      expense |-> "bulk_propagating", music |-> "none", joplin |-> "stub",
      osmand |-> "none", audio_recorder |-> "none", markor |-> "each",
      files |-> "each_exposed", opentracks |-> "each", gallery |-> "none",
      system |-> "none" ]

\* the option that the random helper of each configurator reads its count from
CodeCountKey ==
    [ datetime |-> "none", contacts |-> "none", sms |-> "random_conversation_count",
      calendar |-> "random_event_count", recipe |-> "random_recipe_count",
      tasks |-> "add_random_tasks_count", expense |-> "random_expense_count",
      music |-> "none", joplin |-> "random_note_count", osmand |-> "none",
      audio_recorder |-> "none", markor |-> "random_note_count",
      files |-> "random_file_count", opentracks |-> "random_activity_count",
      gallery |-> "none", system |-> "none" ]

\* the option random_<noun>_count of the configuration format
FormatCountKey == [CodeCountKey EXCEPT !["tasks"] = "random_task_count"]

\* the second argument of self.config.get(<count option>, default)
DefaultCount ==
    [ datetime |-> 0, contacts |-> 0, sms |-> 3, calendar |-> 10, recipe |-> 5,
      tasks |-> 0, expense |-> 5, music |-> 0, joplin |-> 10, osmand |-> 0,
      audio_recorder |-> 0, markor |-> 5, files |-> 5, opentracks |-> 5,
      gallery |-> 0, system |-> 0 ]

PopulateKeys == {k \in OrderKeys : ExplicitStyle[k] # "none" \/ RandomMode[k] # "none"}

\* where the loop over the explicit items reads the fields of an item:
\*  guarded              inside the try of the item, whose handler does not
\*                       read the item again
\*  guarded_after_first  inside the try, whose handler names a local that is
\*                       bound once the first item has been read
\*  exposed              outside the try, or inside it with a handler that
\*                       reads the item again
ItemRead ==
    [ datetime |-> "none", contacts |-> "exposed", sms |-> "guarded",
      calendar |-> "exposed", recipe |-> "exposed", tasks |-> "exposed",
      expense |-> "exposed", music |-> "exposed", joplin |-> "exposed",
      osmand |-> "exposed", audio_recorder |-> "none", markor |-> "exposed",
      files |-> "exposed", opentracks |-> "guarded",
      gallery |-> "guarded_after_first", system |-> "none" ]

\* an explicit item: fault tells what goes wrong with it, nothing ("none"), a
\* required field that is missing or cannot be converted ("field"), a read of
\* its fields that raises because it is not a mapping ("shape"), or the
\* backend request that carries it ("insert")
Item(i, f) == [id |-> i, fault |-> f]

Faults == {"none", "field", "shape", "insert"}

ItemLists ==
    UNION {{[i \in 1..n |-> Item(i, fs[i])] : fs \in [1..n -> Faults]} : n \in 0..MaxItems}

PopulateFragment(k, items, rnd, ck, cn) ==
    [module |-> k, add_items |-> items, add_random |-> rnd, count_key |-> ck, count_n |-> cn]

RandomCounts(k) == (0..MaxRandom) \cup (IF k = "sms" THEN {SmsContacts + 1} ELSE {})

PopulateFragments(k) ==
    {PopulateFragment(k, items, FALSE, Absent, 0) :
        items \in IF ExplicitStyle[k] = "none" THEN {<< >>} ELSE ItemLists}
    \cup
    {PopulateFragment(k, items, TRUE, ck, cn) :
        items \in (IF ExplicitStyle[k] = "none" THEN {<< >>} ELSE ItemLists),
        ck \in (IF RandomMode[k] = "none" THEN {} ELSE {FormatCountKey[k], CodeCountKey[k]}),
        cn \in RandomCounts(k)}
    \cup
    {PopulateFragment(k, << >>, TRUE, Absent, 0) : x \in (IF RandomMode[k] = "none" THEN {} ELSE {1})}

\* the environments a configurator is built from once the bring-up is over: the
\* two launched environments with a controller, and a bare controller
PopulateEnvs ==
    {[id |-> "env", base_env |-> "base_ctl", controller |-> "ctl"],
     [id |-> "env", base_env |-> Absent, controller |-> "ctl"],
     [id |-> "env", base_env |-> Absent, controller |-> Absent]}

\* a row or file of the subsystem of the configured module
Row(kind, i) == [kind |-> kind, id |-> i]

InitPopulate ==
    /\ \E k \in PopulateKeys : \E f \in PopulateFragments(k) : config = [x \in {k} |-> f]
    /\ device_serial = "emulator-5554"
    /\ env \in PopulateEnvs
    /\ pc = "compat"
    /\ idx = 1
    /\ total_count = 0
    /\ success_count = 0
    /\ remaining = {}
    /\ configurator = NoConfigurator
    /\ cfgpc = "none"
    /\ ops = 0
    /\ result = "none"
    /\ trace = << >>
    /\ device \in {[store |-> st, log |-> << >>] : st \in {<< >>, << Row("old", 0) >>}}
    /\ frame = NoFrame

StaysInConfigure ==
    UNCHANGED << config, device_serial, env, pc, idx, total_count, success_count,
                 remaining, configurator, cfgpc, ops, result, trace >>

\* <items>_to_add = self.config.get('add_<items>', []); if <items>_to_add: ...
BeginPopulate ==
    /\ InConfigure
    /\ cfgpc = "body"
    /\ frame = NoFrame
    /\ frame' = [phase |-> IF configurator.config.add_items = << >> THEN "random" ELSE "explicit",
                 i |-> 1, batch |-> << >>, n |-> 0]
    /\ UNCHANGED device
    /\ StaysInConfigure

InPhase(p) == frame # NoFrame /\ frame.phase = p

\* reading the fields of the item at position i raises out of the loop
ReadEscapes(k, i, item) ==
    /\ item.fault = "shape"
    /\ \/ ItemRead[k] = "exposed"
       \/ ItemRead[k] = "guarded_after_first" /\ i = 1

\* the items of the list have been gone through (or the loop was left)
AfterItems(f) == [f EXCEPT !.phase = IF Len(f.batch) > 0 THEN "bulk" ELSE "random", !.i = 1]

NextItem(f) ==
    IF f.i < Len(configurator.config.add_items) THEN [f EXCEPT !.i = f.i + 1] ELSE AfterItems(f)

\* variant of AddExplicitItem: the first item whose request raises ends the loop
AddExplicitItem_abortsList ==
    /\ InConfigure
    /\ cfgpc = "body"
    /\ InPhase("explicit")
    /\ ExplicitStyle[configurator.key] \in {"each", "each_needs_env", "each_exposed"}
    /\ LET item == configurator.config.add_items[frame.i] IN
         IF ReadEscapes(configurator.key, frame.i, item)
         THEN /\ UNCHANGED device
              /\ ReturnFromConfigure(FALSE)
         ELSE IF item.fault = "none"
         THEN /\ device' = [device EXCEPT !.store = Append(@, Row("explicit", item.id))]
              /\ frame' = NextItem(frame)
              /\ StaysInConfigure
         ELSE /\ frame' = AfterItems(frame)
              /\ UNCHANGED device
              /\ StaysInConfigure

\* one iteration of "for item in items: try: ... except Exception: log" of
\* _add_contacts, _add_specific_tasks, _add_specific_recipes, _add_files, ...
AddExplicitItem ==
    /\ InConfigure
    /\ cfgpc = "body"
    /\ InPhase("explicit")
    /\ ExplicitStyle[configurator.key] \in {"each", "each_needs_env", "each_exposed"}
    /\ LET item == configurator.config.add_items[frame.i]
           style == ExplicitStyle[configurator.key]
       IN IF ReadEscapes(configurator.key, frame.i, item)
          THEN /\ UNCHANGED device
               /\ ReturnFromConfigure(FALSE)
          ELSE IF style = "each_needs_env" /\ configurator.env = NullEnv /\ item.fault # "shape"
          THEN \* music_configurator.py:127-139, no full env object: break
               /\ frame' = AfterItems(frame)
               /\ UNCHANGED device
               /\ StaysInConfigure
          ELSE IF item.fault = "none"
          THEN /\ device' = [device EXCEPT !.store = Append(@, Row("explicit", item.id))]
               /\ frame' = NextItem(frame)
               /\ StaysInConfigure
          ELSE IF item.fault \in {"field", "shape"}
          THEN /\ frame' = NextItem(frame)
               /\ UNCHANGED device
               /\ StaysInConfigure
          ELSE \/ /\ frame' = NextItem(frame)
                  /\ UNCHANGED device
                  /\ StaysInConfigure
               \/ \* markor_configurator.py:128, the folder check outside the try
                  /\ style = "each_exposed"
                  /\ UNCHANGED device
                  /\ ReturnFromConfigure(FALSE)

\* one iteration of the conversion loop of _add_specific_events, _add_expenses,
\* _add_notes: the item becomes an object of the batch, or is logged and skipped
ConvertItem ==
    /\ InConfigure
    /\ cfgpc = "body"
    /\ InPhase("explicit")
    /\ ExplicitStyle[configurator.key] \in {"bulk_fallback", "bulk_absorbed", "bulk_propagating"}
    /\ LET item == configurator.config.add_items[frame.i] IN
         IF ReadEscapes(configurator.key, frame.i, item)
         THEN /\ UNCHANGED device
              /\ ReturnFromConfigure(FALSE)
         ELSE /\ frame' = NextItem(IF item.fault \in {"field", "shape"} THEN frame
                                   ELSE [frame EXCEPT !.batch = Append(@, item)])
              /\ UNCHANGED device
              /\ StaysInConfigure

\* the request that carries the batch raises
BatchRaises(batch) == \E i \in DOMAIN batch : batch[i].fault = "insert"

RowsOf(batch) == [i \in DOMAIN batch |-> Row("explicit", batch[i].id)]

\* calendar_utils.add_events(calendar_events, ...), insert_rows_to_remote_db(...):
\* the one request that inserts the whole batch
BulkInsert ==
    /\ InConfigure
    /\ cfgpc = "body"
    /\ InPhase("bulk")
    /\ LET style == ExplicitStyle[configurator.key] IN
         IF ~BatchRaises(frame.batch)
         THEN /\ device' = [device EXCEPT !.store = @ \o RowsOf(frame.batch)]
              /\ frame' = [frame EXCEPT !.phase = "random"]
              /\ StaysInConfigure
         ELSE IF style = "bulk_fallback"
         THEN /\ frame' = [frame EXCEPT !.phase = "fallback", !.i = 1]
              /\ UNCHANGED device
              /\ StaysInConfigure
         ELSE IF style = "bulk_absorbed"
         THEN /\ frame' = [frame EXCEPT !.phase = "random"]
              /\ UNCHANGED device
              /\ StaysInConfigure
         ELSE /\ UNCHANGED device
              /\ ReturnFromConfigure(FALSE)

\* calendar_configurator.py:217-227, adding the events of the batch one by one
FallbackInsert ==
    /\ InConfigure
    /\ cfgpc = "body"
    /\ InPhase("fallback")
    /\ LET item == frame.batch[frame.i] IN
         device' = IF item.fault = "none"
                   THEN [device EXCEPT !.store = Append(@, Row("explicit", item.id))]
                   ELSE device
    /\ frame' = IF frame.i < Len(frame.batch) THEN [frame EXCEPT !.i = frame.i + 1]
                ELSE [frame EXCEPT !.phase = "random"]
    /\ StaysInConfigure

Min(a, b) == IF a <= b THEN a ELSE b

\* self.config.get(<count option>, <default>) as the random helper reads it
RequestedCount(c) ==
    IF c.config.count_key = CodeCountKey[c.key] THEN c.config.count_n ELSE DefaultCount[c.key]

\* the number of items the random helper sets out to add
RandomTarget(c) ==
    LET mode == RandomMode[c.key] IN
    IF mode = "stub" THEN 0
    ELSE IF mode = "capped_each" THEN Min(RequestedCount(c), SmsContacts)
    ELSE RequestedCount(c)

\* if self.config.get('add_random_<items>', False): the random helper starts
BeginRandom ==
    /\ InConfigure
    /\ cfgpc = "body"
    /\ InPhase("random")
    /\ frame' = IF configurator.config.add_random /\ RandomTarget(configurator) > 0
                THEN [frame EXCEPT !.phase = "random_items", !.i = 1, !.n = RandomTarget(configurator)]
                ELSE [frame EXCEPT !.phase = "end"]
    /\ UNCHANGED device
    /\ StaysInConfigure

LogRandom(out) == [device EXCEPT !.log = Append(@, out)]

\* one iteration of the loop of a random helper that issues one request per item
AddRandomItem ==
    /\ InConfigure
    /\ cfgpc = "body"
    /\ InPhase("random_items")
    /\ RandomMode[configurator.key] \in {"each", "each_exposed", "capped_each"}
    /\ LET next == IF frame.i < frame.n THEN [frame EXCEPT !.i = frame.i + 1]
                   ELSE [frame EXCEPT !.phase = "end"]
       IN \/ /\ device' = [device EXCEPT !.store = Append(@, Row("random", frame.i))]
             /\ frame' = next
             /\ StaysInConfigure
          \/ /\ device' = LogRandom("threw")
             /\ frame' = next
             /\ StaysInConfigure
          \/ \* files_configurator.py:148, the folder check outside the try
             /\ RandomMode[configurator.key] = "each_exposed"
             /\ device' = LogRandom("threw")
             /\ ReturnFromConfigure(FALSE)

\* the one request of a random helper that inserts all its items together
AddRandomBulk ==
    /\ InConfigure
    /\ cfgpc = "body"
    /\ InPhase("random_items")
    /\ RandomMode[configurator.key] \in {"external", "bulk_propagating"}
    /\ \/ /\ device' = [device EXCEPT !.store = @ \o [i \in 1..frame.n |-> Row("random", i)]]
          /\ frame' = [frame EXCEPT !.phase = "end"]
          /\ StaysInConfigure
       \/ /\ device' = LogRandom("threw")
          /\ IF RandomMode[configurator.key] = "external"
             THEN /\ frame' = [frame EXCEPT !.phase = "end"]
                  /\ StaysInConfigure
             ELSE ReturnFromConfigure(FALSE)

\* the end of the try body of configure(): return True
PopulateEnd ==
    /\ InConfigure
    /\ cfgpc = "body"
    /\ InPhase("end")
    /\ UNCHANGED device
    /\ ReturnFromConfigure(TRUE)

NextPopulate ==
    \/ CompatCall
    \/ ConfigureCall
    \/ BeginPopulate
    \/ AddExplicitItem
    \/ ConvertItem
    \/ BulkInsert
    \/ FallbackInsert
    \/ BeginRandom
    \/ AddRandomItem
    \/ AddRandomBulk
    \/ PopulateEnd

SpecPopulate == InitPopulate /\ [][NextPopulate]_vars

(***************************************************************************)
(* Observations on a finished configure() call of the populate stages.     *)
(***************************************************************************)
RECURSIVE IdsOf(_, _)
\* the ids of the rows of the given kind, in the order of the store
IdsOf(rows, kind) ==
    IF rows = << >> THEN << >>
    ELSE IF Head(rows).kind = kind THEN << Head(rows).id >> \o IdsOf(Tail(rows), kind)
    ELSE IdsOf(Tail(rows), kind)

ExplicitIds == IdsOf(device.store, "explicit")

RandomIds == IdsOf(device.store, "random")

RECURSIVE GoodIds(_)
\* the ids of the items of a list that nothing goes wrong with
GoodIds(items) ==
    IF items = << >> THEN << >>
    ELSE IF Head(items).fault = "none" THEN << Head(items).id >> \o GoodIds(Tail(items))
    ELSE GoodIds(Tail(items))

IsPrefix(a, b) == Len(a) <= Len(b) /\ \A i \in DOMAIN a : a[i] = b[i]

Ended(k) == Outcome(k) \in {"true", "false"}

HasFault(k, f) == \E i \in DOMAIN config[k].add_items : config[k].add_items[i].fault = f

\* some item of the list of k cannot be read where the loop reads it
SomeReadEscapes(k) ==
    \E i \in DOMAIN config[k].add_items : ReadEscapes(k, i, config[k].add_items[i])

\* the configurators are built on an environment that keeps a full env object
HasRichEnv == BaseConfiguratorInit(Null, env, Fragment(Null)).env # NullEnv

\* no request of the random population raised
RandomQuiet == device.log = << >>

C16_Original ==
    \A k \in Present :
        ( /\ Outcome(k) = "true"
          /\ RandomQuiet
          /\ ~HasFault(k, "insert")
          /\ ~HasFault(k, "shape")
          /\ config[k].add_random
          /\ config[k].count_key = FormatCountKey[k] ) =>
            Len(RandomIds) = config[k].count_n

\* Joplin was asked for two random notes, configure() returned true and the
\* store holds none
C16_JoplinAddsNothing ==
    /\ "joplin" \in DOMAIN config
    /\ config["joplin"].add_random
    /\ config["joplin"].count_key = "random_note_count"
    /\ config["joplin"].count_n = 2
    /\ Outcome("joplin") = "true"
    /\ RandomIds = << >>

(***************************************************************************)
(* The clear stage run several times in a row: configure_<key>() is called *)
(* again and again on a fragment that only sets the clear option, on a     *)
(* table that holds any rows or on a directory that is missing or holds    *)
(* any files.                                                              *)
(***************************************************************************)
\* number of configure() calls made in a row
MaxClears == 2

\* what the clear helper of each configurator does to its table or directory:
\*  table           deletes the rows of a table (or the waypoints of a file)
\*  dir_create      empties the directory and creates it when it is missing
\*  dir_recordings  creates a missing directory, else removes the recordings
\*  dir_glob        rm -rf <directory>/*
\*  dir_external    file_utils.clear_directory(<directory>)
ClearKind ==
    [ datetime |-> "none", contacts |-> "table", sms |-> "table",
      calendar |-> "table", recipe |-> "table", tasks |-> "table",
      expense |-> "table", music |-> "dir_create", joplin |-> "table",
      osmand |-> "table", audio_recorder |-> "dir_recordings",
      markor |-> "dir_external", files |-> "dir_create", opentracks |-> "table",
      gallery |-> "dir_glob", system |-> "none" ]

ClearKeys == {k \in OrderKeys : ClearKind[k] # "none"}

\* the sub-step of configure() that clears, as Lifecycle lists it
ClearStepOf(k) ==
    Lifecycle[k][CHOOSE j \in DOMAIN Lifecycle[k] : Lifecycle[k][j].stage = "clear"]

\* a fragment that switches on the clear option only
ClearFragment(k) == [module |-> k, on |-> {ClearStepOf(k).flag}]

\* what a table or directory holds: items of the kind the configurator manages
\* ("item") and files of other kinds ("other")
Contents == SUBSET {"item", "other"}

Store(e, c) == [exists |-> e, content |-> c]

Missing == Store(FALSE, {})

Empty == Store(TRUE, {})

\* the stores a clear may find: a table always exists
StoresOf(k) ==
    {Store(TRUE, c) : c \in Contents} \cup
    (IF ClearKind[k] = "table" THEN {} ELSE {Missing})

InitClear ==
    /\ \E k \in ClearKeys :
         /\ config = [x \in {k} |-> ClearFragment(k)]
         /\ \E st \in StoresOf(k) : device = [store |-> st, first |-> st, results |-> << >>]
    /\ device_serial = "emulator-5554"
    /\ env \in PopulateEnvs
    /\ pc = "compat"
    /\ idx = 1
    /\ total_count = 0
    /\ success_count = 0
    /\ remaining = {}
    /\ configurator = NoConfigurator
    /\ cfgpc = "none"
    /\ ops = 0
    /\ result = "none"
    /\ trace = << >>
    /\ frame = NoFrame

\* variant of ClearedStores: the helper removes a directory together with its
\* files
ClearedStores_removesDirectory(kind, st) ==
    IF kind = "table" THEN {Empty} ELSE {Missing}

\* the stores that a clear helper whose requests succeed can leave behind
ClearedStores(kind, st) ==
    IF kind \in {"table", "dir_create"} THEN {Empty}
    ELSE IF kind = "dir_recordings"
    THEN {IF st.exists THEN Store(TRUE, st.content \ {"item"}) ELSE Empty}
    ELSE IF kind = "dir_glob"
    THEN {IF st.exists THEN Empty ELSE Missing}
    ELSE IF st.exists THEN {Empty} ELSE {Empty, Missing}

\* the result of one configure() call: the value returned, whether a request
\* of the clear helper raised, and the store it left
Cleared(b, t, st) == [out |-> b, threw |-> t, store |-> st]

\* configure() of a fragment that only clears: the clear helper, then return
ClearStep ==
    /\ InConfigure
    /\ cfgpc = "body"
    /\ LET k == configurator.key IN
         \/ \E st \in ClearedStores(ClearKind[k], device.store) :
              /\ device' = [device EXCEPT !.store = st,
                                          !.results = Append(@, Cleared(TRUE, FALSE, st))]
              /\ ReturnFromConfigure(TRUE)
         \/ /\ device' = [device EXCEPT
                            !.results = Append(@, Cleared(ClearStepOf(k).guarded, TRUE, device.store))]
            /\ ReturnFromConfigure(ClearStepOf(k).guarded)

\* core.py:191-285, the caller invokes configure_<key>() once more
CallAgain ==
    /\ pc = "compat_done"
    /\ Len(device.results) \in 1..(MaxClears - 1)
    /\ pc' = "compat"
    /\ UNCHANGED << device, frame, config, device_serial, env, idx, total_count,
                    success_count, remaining, configurator, cfgpc, ops, result, trace >>

NextClear ==
    \/ CompatCall
    \/ ConfigureCall
    \/ ClearStep
    \/ CallAgain

SpecClear == InitClear /\ [][NextClear]_vars

\* no request of the clear helpers raised so far
ClearQuiet == \A i \in DOMAIN device.results : ~device.results[i].threw

(***************************************************************************)
(* C15: a clear run twice in a row on an empty table or directory leaves   *)
(* it empty and configure() returns true both times; a clear on a missing  *)
(* directory leaves it existing and empty.  As stated this fails: the      *)
(* clear of Gallery leaves a missing directory missing, and a clear        *)
(* request that raises fails configure() of Contacts and Expense.          *)
(***************************************************************************)
C15_Original ==
    \A k \in Present :
        (ClearKind[k] # "none" /\ device.first \in {Empty, Missing}) =>
            \A i \in DOMAIN device.results :
                device.results[i].out /\ device.results[i].store = Empty

(***************************************************************************)
(* C15 as it holds, for calls whose clear requests do not raise: every     *)
(* call returns true; a table or directory that starts empty stays empty;  *)
(* Files, Music and AudioRecorder turn a missing directory into an empty   *)
(* one, Gallery leaves it missing; and except for Markor on a missing      *)
(* directory, a second clear leaves what the first clear left, whatever    *)
(* the store held.  A clear request that raises changes nothing, and       *)
(* configure() returns false for Contacts and Expense, true otherwise.     *)
(***************************************************************************)
C15_ClearIdempotent ==
    \A k \in Present :
        ClearKind[k] # "none" =>
            /\ \A i \in DOMAIN device.results :
                   LET r == device.results[i] IN
                   IF r.threw THEN r.out = ClearStepOf(k).guarded
                   ELSE /\ r.out
                        /\ (ClearQuiet /\ device.first = Empty) => r.store = Empty
                        /\ (ClearQuiet /\ device.first = Missing) =>
                              /\ ClearKind[k] \in {"dir_create", "dir_recordings"} => r.store = Empty
                              /\ ClearKind[k] = "dir_glob" => r.store = Missing
            /\ (ClearQuiet /\ Len(device.results) >= 2
                  /\ ~(ClearKind[k] = "dir_external" /\ device.first = Missing)) =>
                   device.results[2].store = device.results[1].store

\* Files: the folder was missing, two clears in a row both returned true and
\* left the folder existing and empty
C15_Witness ==
    /\ "files" \in DOMAIN config
    /\ device.first = Missing
    /\ Len(device.results) = 2
    /\ \A i \in 1..2 : device.results[i] = Cleared(TRUE, FALSE, Empty)

(***************************************************************************)
(* Seeding: initialize() run twice with one configuration, on two devices  *)
(* that start from different contents.  The fragment sets the clear option *)
(* and lists explicit items; a device row keeps the id of the item it was  *)
(* made from and the value generated for it while it was inserted.         *)
(***************************************************************************)
\* whether the rows a configurator inserts carry values made up at insertion
\* time (uuid4, now(), random.randint):
\*  always        a field of every row (tasks remoteId, joplin created_time,
\*                sms timestamp, opentracks uuid)
\*  unless_given  a field the item may give itself (expense created_date,
\*                music duration_ms)
\*  never         every field comes from the item
Generated ==
    [ datetime |-> "none", contacts |-> "never", sms |-> "always",
      calendar |-> "never", recipe |-> "never", tasks |-> "always",
      expense |-> "unless_given", music |-> "unless_given", joplin |-> "always",
      osmand |-> "never", audio_recorder |-> "none", markor |-> "never",
      files |-> "never", opentracks |-> "always", gallery |-> "never",
      system |-> "none" ]

SeedKeys == {k \in OrderKeys : Generated[k] # "none"}

\* the values that uuid4() or now() may yield
GenValues == {"v1", "v2"}

\* an explicit item of a seeding fragment: it is complete ("none") or lacks a
\* required field ("field"), and it gives its optional fields itself or not
SeedItem(i, f, g) == [id |-> i, fault |-> f, given |-> g]

SeedVariants == {<< "none", TRUE >>, << "none", FALSE >>, << "field", TRUE >>}

SeedLists ==
    UNION {{[i \in 1..n |-> SeedItem(i, vs[i][1], vs[i][2])] : vs \in [1..n -> SeedVariants]} :
             n \in 0..MaxItems}

SeedFragment(k, items) ==
    [module |-> k, on |-> {ClearStepOf(k).flag}, add_items |-> items]

SeedRow(kind, i, g) == [kind |-> kind, id |-> i, gen |-> g]

\* the contents a device may start from
InitialRows == {<< >>, << SeedRow("old", 0, "none") >>}

InitTwoRuns ==
    /\ \E k \in SeedKeys : \E items \in SeedLists : config = [x \in {k} |-> SeedFragment(k, items)]
    /\ device_serial = "emulator-5554"
    /\ env = NullEnv
    /\ pc = "setup_adb"
    /\ idx = 1
    /\ total_count = 0
    /\ success_count = 0
    /\ remaining = {}
    /\ configurator = NoConfigurator
    /\ cfgpc = "none"
    /\ ops = 0
    /\ result = "none"
    /\ trace = << >>
    /\ \E a \in InitialRows : \E b \in InitialRows \ {a} :
         device = [stores |-> << a, b >>, first |-> << a, b >>, run |-> 1,
                   verdicts |-> << >>, raised |-> FALSE]
    /\ frame = NoFrame

\* variant of SeedClear: the clear helper leaves the rows in place
SeedClear_keepsRows ==
    /\ InConfigure
    /\ cfgpc = "body"
    /\ frame = NoFrame
    /\ frame' = [phase |-> "items", i |-> 1]
    /\ UNCHANGED device
    /\ StaysInConfigure

\* if self.config.get('clear_<items>', False): the clear helper
SeedClear ==
    /\ InConfigure
    /\ cfgpc = "body"
    /\ frame = NoFrame
    /\ \/ /\ device' = [device EXCEPT !.stores[device.run] = << >>]
          /\ frame' = [phase |-> "items", i |-> 1]
          /\ StaysInConfigure
       \/ /\ device' = [device EXCEPT !.raised = TRUE]
          /\ IF ClearStepOf(configurator.key).guarded
             THEN /\ frame' = [phase |-> "items", i |-> 1]
                  /\ StaysInConfigure
             ELSE ReturnFromConfigure(FALSE)

\* the generated part of the row made from an item
GenChoices(k, item) ==
    IF Generated[k] = "always" \/ (Generated[k] = "unless_given" /\ ~item.given)
    THEN GenValues ELSE {"none"}

\* variant of SeedAdd: an item that lacks a required field is inserted as well
SeedAdd_addsIncomplete ==
    /\ InConfigure
    /\ cfgpc = "body"
    /\ InPhase("items")
    /\ frame.i <= Len(configurator.config.add_items)
    /\ LET item == configurator.config.add_items[frame.i] IN
         \E g \in GenChoices(configurator.key, item) :
            device' = [device EXCEPT !.stores[device.run] = Append(@, SeedRow("explicit", item.id, g))]
    /\ frame' = [frame EXCEPT !.i = frame.i + 1]
    /\ StaysInConfigure

\* one iteration of the loop over the explicit items, every request succeeding
SeedAdd ==
    /\ InConfigure
    /\ cfgpc = "body"
    /\ InPhase("items")
    /\ frame.i <= Len(configurator.config.add_items)
    /\ LET item == configurator.config.add_items[frame.i] IN
         IF item.fault = "none"
         THEN \E g \in GenChoices(configurator.key, item) :
                device' = [device EXCEPT !.stores[device.run] = Append(@, SeedRow("explicit", item.id, g))]
         ELSE UNCHANGED device
    /\ frame' = [frame EXCEPT !.i = frame.i + 1]
    /\ StaysInConfigure

\* the end of the try body of configure(): return True
SeedEnd ==
    /\ InConfigure
    /\ cfgpc = "body"
    /\ InPhase("items")
    /\ frame.i > Len(configurator.config.add_items)
    /\ UNCHANGED device
    /\ ReturnFromConfigure(TRUE)

\* core.py:24-57 and 122-188, a new initializer is built from the same
\* configuration and initialize() runs on the second device
SecondRun ==
    /\ pc = "done"
    /\ device.run = 1
    /\ device' = [device EXCEPT !.run = 2, !.verdicts = Append(@, result)]
    /\ env' = NullEnv
    /\ pc' = "setup_adb"
    /\ idx' = 1
    /\ total_count' = 0
    /\ success_count' = 0
    /\ result' = "none"
    /\ trace' = << >>
    /\ UNCHANGED << frame, config, device_serial, remaining, configurator, cfgpc, ops >>

NextTwoRuns ==
    \/ SetupAdbDevices
    \/ SetupConnect
    \/ LoopSkip
    \/ LoopAttempt
    \/ NewConfigurator
    \/ ConfigureCall
    \/ SeedClear
    \/ SeedAdd
    \/ SeedEnd
    \/ LoopExit
    \/ Verdict
    \/ SecondRun

SpecTwoRuns == InitTwoRuns /\ [][NextTwoRuns]_vars

RECURSIVE RowIds(_)
\* the item ids of the rows of a store, in order (0 for a row that was there
\* before the run)
RowIds(rows) == IF rows = << >> THEN << >> ELSE << Head(rows).id >> \o RowIds(Tail(rows))

\* both runs are over and returned true, without any request raising
BothRunsClean ==
    /\ device.run = 2
    /\ pc = "done"
    /\ device.verdicts = << "True" >>
    /\ result = "True"
    /\ ~device.raised

\* the first run is over and returned true without any request raising
FirstRunClean ==
    /\ ~device.raised
    /\ \/ device.run = 1 /\ pc = "done" /\ result = "True"
       \/ device.run = 2 /\ device.verdicts = << "True" >>

(***************************************************************************)
(* C17: two runs of initialize() with the same configuration (clear flags  *)
(* set, explicit items only) and a backend that never fails, started from  *)
(* different device states, end with identical contents in every subsystem *)
(* the configuration clears and populates.  As stated this fails: the rows *)
(* of Tasks, Joplin, SMS and OpenTracks, and those of Expense and Music    *)
(* for items that leave a field out, carry values generated at insertion.  *)
(***************************************************************************)
C17_Original ==
    BothRunsClean => device.stores[1] = device.stores[2]

(***************************************************************************)
(* C17 as it holds: after two such runs both devices hold one row for each *)
(* complete item of the list, in the order of the list, and nothing else;  *)
(* the rows are identical for the configurators that take every field from *)
(* the item, and for Expense and Music when every item gives its fields.   *)
(***************************************************************************)
C17_SameItems ==
    BothRunsClean =>
        \A k \in Present :
            /\ RowIds(device.stores[1]) = GoodIds(config[k].add_items)
            /\ RowIds(device.stores[2]) = GoodIds(config[k].add_items)
            /\ ( \/ Generated[k] = "never"
                 \/ (Generated[k] = "unless_given" /\
                       \A i \in DOMAIN config[k].add_items : config[k].add_items[i].given) ) =>
                   device.stores[1] = device.stores[2]

\* Calendar: the devices started from different contents and both hold the
\* same two event rows after the two runs
C17_Witness ==
    /\ BothRunsClean
    /\ "calendar" \in DOMAIN config
    /\ device.first[1] # device.first[2]
    /\ Len(device.stores[1]) = 2
    /\ device.stores[1] = device.stores[2]

(***************************************************************************)
(* C18: for any initial contents of the contacts store, a run with         *)
(* {clear_contacts: true, add_contacts: L} leaves exactly the entries of   *)
(* L, one row each.  As stated this fails for an entry of L that lacks a   *)
(* name or a number: it is skipped.                                        *)
(***************************************************************************)
C18_Original ==
    ("contacts" \in DOMAIN config /\ FirstRunClean) =>
        RowIds(device.stores[1]) = [i \in DOMAIN config["contacts"].add_items |->
                                       config["contacts"].add_items[i].id]

(***************************************************************************)
(* C18 as it holds: after a run that returned true and in which no request *)
(* raised, the contacts store holds exactly the entries of L that have a   *)
(* name and a number, one row each in the order of L, whatever it held     *)
(* before; the other entries of L are skipped.                             *)
(***************************************************************************)
C18_ExactlyCompleteEntries ==
    ("contacts" \in DOMAIN config /\ FirstRunClean) =>
        /\ RowIds(device.stores[1]) = GoodIds(config["contacts"].add_items)
        /\ \A j \in DOMAIN device.stores[1] : device.stores[1][j].kind = "explicit"

\* the store held a row, L has one complete entry, and after the run the store
\* holds that entry alone
C18_Witness ==
    /\ "contacts" \in DOMAIN config
    /\ FirstRunClean
    /\ device.first[1] # << >>
    /\ Len(config["contacts"].add_items) = 1
    /\ device.stores[1] = << SeedRow("explicit", 1, "none") >>

(***************************************************************************)
(* The documented scenarios: one run of initialize() on a datetime         *)
(* fragment (timezone, use_24_hour_format) or on a calendar fragment with  *)
(* one explicit event, with the settings and the event rows of the device. *)
(***************************************************************************)
\* a value of a fragment with its Python type; Unset is a key that is not there
IntVal(n) == [type |-> "int", val |-> n]

StrVal(x) == [type |-> "str", val |-> x]

Unset == [type |-> Absent]

\* bool(value) as "if title and start_time" and "if end_time" take it
Truthy(v) ==
    IF v.type = "int" THEN v.val # 0
    ELSE IF v.type = "str" THEN v.val # ""
    ELSE FALSE

TimezoneOptions == {Unset, StrVal(""), StrVal("UTC"), StrVal("Europe/Paris")}

\* use_24_hour_format: not given, true or false
FormatOptions == {"absent", "true", "false"}

DateTimeFragment(tz, fmt) == [module |-> "datetime", timezone |-> tz, use_24_hour_format |-> fmt]

\* {"timezone": "UTC", "use_24_hour_format": true}
ScenarioA == DateTimeFragment(StrVal("UTC"), "true")

Titles == {"", "Standup"}

StartTimes == {IntVal(0), IntVal(1704099600), StrVal("2024-01-01T09:00:00"), StrVal("tomorrow")}

Durations == {Unset, IntVal(0), IntVal(15), IntVal(45)}

EndTimes == {Unset, IntVal(0), IntVal(1704103200)}

CalendarEvent(t, s, d, e) == [title |-> t, start_time |-> s, duration_mins |-> d, end_time |-> e]

CalendarFragment(ev) == [module |-> "calendar", add_events |-> << ev >>]

\* {"add_events": [{"title": "Standup", "start_time": "2024-01-01T09:00:00",
\*                  "duration_mins": 15}]}
ScenarioC ==
    CalendarFragment(CalendarEvent("Standup", StrVal("2024-01-01T09:00:00"), IntVal(15), Unset))

\* the offsets from UTC, in seconds, of the host that runs fromisoformat(...).timestamp()
HostOffsets == {0, 3600}

\* int(datetime.fromisoformat(s).timestamp()) on a host at the given offset;
\* -1 stands for the ValueError of a string that is no ISO date
FromIsoFormat(x, off) ==
    IF x = "2024-01-01T09:00:00" THEN 1704099600 - off ELSE -1

\* event.get('duration_mins', 30)
DurationMins(ev) == IF ev.duration_mins = Unset THEN 30 ELSE ev.duration_mins.val

\* variant of EndTs: the duration is added to the start as a number of seconds
EndTs_durationInSeconds(ev, start_ts) ==
    IF Truthy(ev.end_time) THEN ev.end_time.val ELSE start_ts + DurationMins(ev)

\* calendar_configurator.py:161-172, the end timestamp of an event
EndTs(ev, start_ts) ==
    IF Truthy(ev.end_time) THEN ev.end_time.val ELSE start_ts + (DurationMins(ev) * 60)

EventRow(t, a, b) == [title |-> t, start_ts |-> a, end_ts |-> b]

\* calendar_configurator.py:148-183, the CalendarEvent objects an event is
\* converted to: none when it has no title or no start_time or when its
\* start_time cannot be parsed
PreparedEvents(ev, off) ==
    IF ev.title = "" \/ ~Truthy(ev.start_time) THEN << >>
    ELSE LET start_ts == IF ev.start_time.type = "str"
                         THEN FromIsoFormat(ev.start_time.val, off)
                         ELSE ev.start_time.val
         IN  IF start_ts < 0 THEN << >>
             ELSE << EventRow(ev.title, start_ts, EndTs(ev, start_ts)) >>

Settings(fmt, tz) == [time_12_24 |-> fmt, timezone |-> tz, auto_time |-> "1", auto_time_zone |-> "1"]

InitialSettings == {Settings(f, z) : f \in {"12", "24"}, z \in {"UTC", "Asia/Tokyo"}}

InitialEvents == {<< >>, << EventRow("Old", 1000, 2000) >>}

ScenarioConfigs ==
    {[x \in {"datetime"} |-> DateTimeFragment(tz, fmt)] : tz \in TimezoneOptions, fmt \in FormatOptions}
    \cup
    {[x \in {"calendar"} |-> CalendarFragment(CalendarEvent(t, st, d, e))] :
        t \in Titles, st \in StartTimes, d \in Durations, e \in EndTimes}

InitScenario ==
    /\ config \in ScenarioConfigs
    /\ device_serial = "emulator-5554"
    /\ env = NullEnv
    /\ pc = "setup_adb"
    /\ idx = 1
    /\ total_count = 0
    /\ success_count = 0
    /\ remaining = {}
    /\ configurator = NoConfigurator
    /\ cfgpc = "none"
    /\ ops = 0
    /\ result = "none"
    /\ trace = << >>
    /\ \E st \in InitialSettings : \E evs \in InitialEvents : \E inst \in BOOLEAN :
         device = [settings |-> st, events |-> evs, installed |-> inst,
                   first |-> [settings |-> st, events |-> evs], raised |-> FALSE]
    /\ frame = NoFrame

RunsDateTime == InConfigure /\ cfgpc = "body" /\ configurator.key = "datetime"

RunsCalendar == InConfigure /\ cfgpc = "body" /\ configurator.key = "calendar"

\* the request of a helper with a try of its own raised: logged, nothing set
RequestRaised == [device EXCEPT !.raised = TRUE]

\* datetime_configurator.py:27-28 and 55-72, disable_auto_settings defaults to True
DisableAutoSettings ==
    /\ RunsDateTime
    /\ frame = NoFrame
    /\ \/ device' = [device EXCEPT !.settings.auto_time = "0", !.settings.auto_time_zone = "0"]
       \/ device' = [RequestRaised EXCEPT !.settings.auto_time = "0"]
       \/ device' = RequestRaised
    /\ frame' = [phase |-> "format"]
    /\ StaysInConfigure

\* variant of Enable24HourFormat: the helper writes the 12 hour format
Enable24HourFormat_twelve ==
    /\ RunsDateTime
    /\ InPhase("format")
    /\ IF configurator.config.use_24_hour_format # "false"
       THEN \/ device' = [device EXCEPT !.settings.time_12_24 = "12"]
            \/ device' = RequestRaised
       ELSE UNCHANGED device
    /\ frame' = [phase |-> "timezone"]
    /\ StaysInConfigure

\* datetime_configurator.py:31-33 and 74-87, use_24_hour_format defaults to True
Enable24HourFormat ==
    /\ RunsDateTime
    /\ InPhase("format")
    /\ IF configurator.config.use_24_hour_format # "false"
       THEN \/ device' = [device EXCEPT !.settings.time_12_24 = "24"]
            \/ device' = RequestRaised
       ELSE UNCHANGED device
    /\ frame' = [phase |-> "timezone"]
    /\ StaysInConfigure

\* datetime_configurator.py:36-39 and 89-101, timezone = self.config.get('timezone')
SetTimezone ==
    /\ RunsDateTime
    /\ InPhase("timezone")
    /\ IF Truthy(configurator.config.timezone)
       THEN \/ device' = [device EXCEPT !.settings.timezone = configurator.config.timezone.val]
            \/ device' = RequestRaised
       ELSE UNCHANGED device
    /\ frame' = [phase |-> "end"]
    /\ StaysInConfigure

\* datetime_configurator.py:41-49, neither 'datetime' nor use_random_datetime
\* is configured: return True
DateTimeEnd ==
    /\ RunsDateTime
    /\ InPhase("end")
    /\ UNCHANGED device
    /\ ReturnFromConfigure(TRUE)

\* calendar_configurator.py:29-30 and 54-85, _setup_calendar_app
SetupCalendarApp ==
    /\ RunsCalendar
    /\ frame = NoFrame
    /\ \E query \in {"listed", "raised"} :
         IF query = "listed" /\ device.installed
         THEN \/ /\ UNCHANGED device
                 /\ frame' = [phase |-> "convert", batch |-> << >>]
                 /\ StaysInConfigure
              \/ \* launch_app or grant_permissions raised: continue anyway
                 /\ device' = RequestRaised
                 /\ frame' = [phase |-> "convert", batch |-> << >>]
                 /\ StaysInConfigure
         ELSE /\ device' = IF query = "raised" THEN RequestRaised ELSE device
              /\ ReturnFromConfigure(FALSE)

\* calendar_configurator.py:122-183, the loop that prepares the events
ConvertEvent ==
    /\ RunsCalendar
    /\ InPhase("convert")
    /\ \E off \in HostOffsets :
         LET batch == PreparedEvents(configurator.config.add_events[1], off) IN
         frame' = [phase |-> IF batch = << >> THEN "end" ELSE "add", batch |-> batch]
    /\ UNCHANGED device
    /\ StaysInConfigure

\* calendar_configurator.py:185-216, calendar_utils.add_events(calendar_events, ...)
AddEvents ==
    /\ RunsCalendar
    /\ InPhase("add")
    /\ \/ /\ device' = [device EXCEPT !.events = @ \o frame.batch]
          /\ frame' = [frame EXCEPT !.phase = "end"]
       \/ /\ device' = RequestRaised
          /\ frame' = [frame EXCEPT !.phase = "one_by_one"]
    /\ StaysInConfigure

\* calendar_configurator.py:217-227, the events of the batch added one by one
AddEventsOneByOne ==
    /\ RunsCalendar
    /\ InPhase("one_by_one")
    /\ \/ device' = [device EXCEPT !.events = @ \o frame.batch]
       \/ device' = RequestRaised
    /\ frame' = [frame EXCEPT !.phase = "end"]
    /\ StaysInConfigure

\* calendar_configurator.py:45-48, _restart_calendar_app and return True
CalendarEnd ==
    /\ RunsCalendar
    /\ InPhase("end")
    /\ \/ UNCHANGED device
       \/ device' = RequestRaised
    /\ ReturnFromConfigure(TRUE)

NextScenario ==
    \/ SetupAdbDevices
    \/ SetupConnect
    \/ LoopSkip
    \/ LoopAttempt
    \/ NewConfigurator
    \/ ConfigureCall
    \/ DisableAutoSettings
    \/ Enable24HourFormat
    \/ SetTimezone
    \/ DateTimeEnd
    \/ SetupCalendarApp
    \/ ConvertEvent
    \/ AddEvents
    \/ AddEventsOneByOne
    \/ CalendarEnd
    \/ LoopExit
    \/ Verdict

SpecScenario == InitScenario /\ [][NextScenario]_vars

\* initialize() has returned
RunOver == pc = "done"

\* the event rows that the run added behind those the device started with
AddedEvents == SubSeq(device.events, Len(device.first.events) + 1, Len(device.events))

(***************************************************************************)
(* C19: with {"datetime": {"timezone": "UTC", "use_24_hour_format": true}} *)
(* initialize() returns true and the device timezone is "UTC" and the 24   *)
(* hour flag is set.  As stated this fails: the bring-up may fail, and the *)
(* helpers absorb a request that raises, so that initialize() returns true *)
(* on a device whose settings were not changed.                            *)
(***************************************************************************)
C19_Original ==
    (RunOver /\ "datetime" \in DOMAIN config /\ config["datetime"] = ScenarioA) =>
        /\ result = "True"
        /\ device.settings.timezone = "UTC"
        /\ device.settings.time_12_24 = "24"

(***************************************************************************)
(* C19 as it holds: once configure() of the datetime module has been       *)
(* entered with a controller it returns true whatever request raises, so   *)
(* initialize() returns true whenever the bring-up yields a controller;    *)
(* when initialize() returned true and no request raised, the timezone is  *)
(* the configured one ("UTC" in Scenario A) and the 24 hour flag is set    *)
(* unless use_24_hour_format is false, which leaves the flag as it was.    *)
(***************************************************************************)
C19_ScenarioA ==
    ("datetime" \in DOMAIN config) =>
        /\ Outcome("datetime") # "false"
        /\ (RunOver /\ Outcome("datetime") = "true") => result = "True"
        /\ (RunOver /\ result = "True" /\ ~device.raised) =>
              LET f == config["datetime"] IN
              /\ device.settings.timezone =
                   IF Truthy(f.timezone) THEN f.timezone.val ELSE device.first.settings.timezone
              /\ device.settings.time_12_24 =
                   IF f.use_24_hour_format # "false" THEN "24" ELSE device.first.settings.time_12_24

\* Scenario A on a device that showed 12 hour Tokyo time: initialize()
\* returned true, the timezone is UTC and the 24 hour flag is set
C19_Witness ==
    /\ RunOver
    /\ "datetime" \in DOMAIN config
    /\ config["datetime"] = ScenarioA
    /\ device.first.settings = Settings("12", "Asia/Tokyo")
    /\ result = "True"
    /\ device.settings.timezone = "UTC"
    /\ device.settings.time_12_24 = "24"

\* the event of a calendar fragment is given with a title and a start_time
\* and without end_time
TitledTimedEvent(ev) == ev.title # "" /\ ev.start_time # Unset /\ ev.end_time = Unset

C21_ConfigImmutable == [][config' = config]_vars

\* a run over two modules is over: both configure() calls went through their
\* sub-steps and returned true
C21_Witness ==
    /\ pc = "done"
    /\ result = "True"
    /\ Cardinality(DOMAIN config) = 2
    /\ \A k \in DOMAIN config : Outcome(k) = "true"
    /\ Len(device.log) >= 3

(***************************************************************************)
(* The command entry point, cli.py:33-57.  main() constructs the           *)
(* initializer, whose __init__ loads the configuration file                *)
(* (core.py:51, 59-73), calls initialize() and exits.  The host side is    *)
(* kept in device: the configuration file main() was pointed at and the    *)
(* exit code of the process once it has ended.                             *)
(***************************************************************************)

\* what --config_path can point at: no file, a file json.load rejects, a file
\* holding a JSON object
ConfigFiles ==
    {[kind |-> "missing"], [kind |-> "unparsable"]}
        \cup {[kind |-> "object", value |-> c] : c \in Configurations}

\* the process: its configuration file and its exit code (Null while it runs)
Host(f, code) == [kind |-> "host", file |-> f, exit_code |-> code]

\* self.config is not assigned before _load_config has returned: the empty
\* mapping stands for the attribute that does not exist yet
InitCli ==
    /\ device \in {Host(f, Null) : f \in ConfigFiles}
    /\ config = << >>
    /\ device_serial \in DeviceSerials
    /\ env = NullEnv
    /\ pc = "construct"
    /\ idx = 1
    /\ total_count = 0
    /\ success_count = 0
    /\ remaining = {}
    /\ configurator = NoConfigurator
    /\ cfgpc = "none"
    /\ ops = 0
    /\ result = "none"
    /\ trace = << >>
    /\ frame = NoFrame

\* variant of LoadConfig: a file that cannot be loaded gives the empty
\* configuration and the run starts
LoadConfig_defaultsEmpty ==
    /\ pc = "construct"
    /\ config' = IF device.file.kind = "object" THEN device.file.value ELSE << >>
    /\ pc' = "setup_adb"
    /\ UNCHANGED << device, frame, device_serial, env, idx, total_count, success_count,
                    remaining, configurator, cfgpc, ops, result, trace >>

\* cli.py:37-44 and core.py:51, 59-73: EmulatorInitializer(...) runs
\* _load_config.  FileNotFoundError (core.py:69-70) and json.JSONDecodeError
\* (core.py:73) leave __init__ and main(): nothing catches them, the
\* interpreter ends with status 1.  Otherwise main() goes on to
\* initializer.initialize() (cli.py:46).
LoadConfig ==
    /\ pc = "construct"
    /\ IF device.file.kind = "object"
       THEN /\ config' = device.file.value
            /\ pc' = "setup_adb"
            /\ UNCHANGED device
       ELSE /\ pc' = "exited"
            /\ device' = Host(device.file, 1)
            /\ UNCHANGED config
    /\ UNCHANGED << frame, device_serial, env, idx, total_count, success_count,
                    remaining, configurator, cfgpc, ops, result, trace >>

\* variant of MainExit: main() only logs the failure
MainExit_alwaysZero ==
    /\ pc = "done"
    /\ pc' = "exited"
    /\ device' = Host(device.file, 0)
    /\ UNCHANGED << frame, config, device_serial, env, idx, total_count, success_count,
                    remaining, configurator, cfgpc, ops, result, trace >>

\* cli.py:46-52: success = initializer.initialize(); exit(1) if not success,
\* otherwise main() returns None and app.run ends the process with status 0
MainExit ==
    /\ pc = "done"
    /\ pc' = "exited"
    /\ device' = Host(device.file, IF result = "True" THEN 0 ELSE 1)
    /\ UNCHANGED << frame, config, device_serial, env, idx, total_count, success_count,
                    remaining, configurator, cfgpc, ops, result, trace >>

NextCli ==
    \/ LoadConfig
    \/ Next
    \/ MainExit

SpecCli == InitCli /\ [][NextCli]_vars

\* the process has ended
Exited == pc = "exited"

\* the configuration file cannot be loaded
ConfigUnloadable == device.file.kind \in {"missing", "unparsable"}

(***************************************************************************)
(* C22: a missing or unparsable configuration file is fatal and the run    *)
(* never starts: the error leaves the constructor, so the process is       *)
(* either still constructing or has ended with a failure status, the       *)
(* environment is never brought up, initialize() is never entered (no      *)
(* result, no counter, no trace event) and no configurator is              *)
(* instantiated.                                                           *)
(***************************************************************************)
C22_UnloadableConfigIsFatal ==
    ConfigUnloadable =>
        /\ pc \in {"construct", "exited"}
        /\ Exited => device.exit_code = 1
        /\ env = NullEnv
        /\ result = "none"
        /\ total_count = 0
        /\ trace = << >>
        /\ configurator = NoConfigurator

\* the process has ended on a file json.load rejected
C22_Witness ==
    /\ Exited
    /\ device.file.kind = "unparsable"
    /\ device.exit_code = 1

(***************************************************************************)
(* C23: the command entry point exits with code 0 if and only if           *)
(* initialize() returned true, and with code 1 otherwise (initialize()     *)
(* returned false, or was never called).                                   *)
(***************************************************************************)
C23_ExitCode ==
    Exited =>
        /\ device.exit_code \in {0, 1}
        /\ device.exit_code = 0 <=> result = "True"

\* the process has ended with status 0 after a run that configured a module
C23_Witness ==
    /\ Exited
    /\ device.exit_code = 0
    /\ success_count >= 1

\* the process has ended with status 1 after initialize() returned false
\* although the environment was up
C23_WitnessFailure ==
    /\ Exited
    /\ device.exit_code = 1
    /\ result = "False"
    /\ EnvironmentUp

(***************************************************************************)
(* The order of the lifecycle stages inside one configure() call, read off *)
(* the record of what reached the device.                                  *)
(***************************************************************************)
StageRank(s) ==
    CASE s = "precondition" -> 0
      [] s = "prepare" -> 1
      [] s = "clear" -> 2
      [] s = "explicit" -> 3
      [] s = "random" -> 4
      [] s = "refresh" -> 5

\* the sub-steps of the configure() of key k that reached the device, in order
StepsOf(k) == SelectSeq(device.log, LAMBDA e : e.key = k)

\* sub-step i of a call comes before sub-step j of the same call
Earlier(i, j) == i < j /\ device.log[i].key = device.log[j].key

\* the media scan of the music configurator, music_configurator.py:152-170
IsMediaScan(e) == e.key = "music" /\ e.name = "_scan_music_directory"

(***************************************************************************)
(* C24, as stated: within one configure() call the stages happen in the    *)
(* order precondition, clear, explicit populate, random populate, refresh. *)
(* Violated by the music configurator, whose media scan (a refresh of the  *)
(* media library that also closes the application) is issued between the   *)
(* added files and the playlists.                                          *)
(***************************************************************************)
C24_Original ==
    \A i, j \in DOMAIN device.log :
        Earlier(i, j) => StageRank(device.log[i].stage) <= StageRank(device.log[j].stage)

(***************************************************************************)
(* C24, amended: within one configure() call no populate sub-step is       *)
(* issued before the clear of the same call, no random populate before an  *)
(* explicit populate, the precondition check comes first, and when         *)
(* configure() returned true after a refresh sub-step, a refresh sub-step  *)
(* is the last one that reached the device.  The stages are in the order   *)
(* precondition, prepare, clear, explicit, random, refresh except for the  *)
(* media scan of the music configurator, which runs right after the music  *)
(* files were added and before the playlists and the queue.                *)
(***************************************************************************)
C24_StageOrder ==
    /\ \A i, j \in DOMAIN device.log :
         Earlier(i, j) =>
            /\ device.log[j].stage # "precondition"
            /\ device.log[j].stage = "clear" => device.log[i].stage \in {"precondition", "prepare"}
            /\ device.log[j].stage = "explicit" => device.log[i].stage # "random"
            /\ \/ StageRank(device.log[i].stage) <= StageRank(device.log[j].stage)
               \/ IsMediaScan(device.log[i])
    /\ \A k \in DOMAIN config :
         (Outcome(k) = "true" /\ \E i \in DOMAIN device.log : device.log[i].key = k /\ device.log[i].stage = "refresh")
            => StepsOf(k)[Len(StepsOf(k))].stage = "refresh"

\* the calendar configure() returned true after its precondition, its clear,
\* its explicit events and its restart, in this order
C24_Witness ==
    /\ "calendar" \in DOMAIN config
    /\ Outcome("calendar") = "true"
    /\ Len(StepsOf("calendar")) = 4
    /\ [i \in 1..4 |-> StepsOf("calendar")[i].stage] = << "precondition", "clear", "explicit", "refresh" >>

(***************************************************************************)
(* initialize() is one sequential call: each of its steps that can be      *)
(* taken is eventually taken (a request to the device returns or raises).  *)
(***************************************************************************)
SpecLifecycleFair == SpecLifecycle /\ WF_vars(NextLifecycle)

\* initialize() has returned a boolean to its caller
Returned == pc = "done" /\ result \in {"True", "False"}

(***************************************************************************)
(* C25: initialize() always terminates with a boolean: whatever            *)
(* combination of requests returns or raises, in the environment bring-up  *)
(* or in any configurator (a null controller included), initialize()       *)
(* eventually returns true or false and no exception reaches its caller.   *)
(***************************************************************************)
C25_ReturnsBoolean == <>[]Returned

\* initialize() has returned false after a sub-step of a configurator raised
\* outside every try of its helper
C25_Witness ==
    /\ Returned
    /\ result = "False"
    /\ \E k \in DOMAIN config : FailedUnabsorbed(k)

\* the number of keys of the configuration, recognized and unknown
ConfiguredKeys == Cardinality(DOMAIN config)

(***************************************************************************)
(* C26: in every reachable state of an initialize() run                    *)
(* 0 <= succeeded <= attempted <= number of keys of the configuration,     *)
(* both counters never decrease, and when the run returns after a          *)
(* successful environment bring-up attempted equals the number of keys of  *)
(* the configuration, recognized and unknown.                              *)
(***************************************************************************)
C26_Counters ==
    /\ [](/\ 0 <= success_count
          /\ success_count <= total_count
          /\ total_count <= ConfiguredKeys
          /\ (pc = "done" /\ EnvironmentUp) => total_count = ConfiguredKeys)
    /\ [][total_count' >= total_count /\ success_count' >= success_count]_vars

\* a run over two recognized keys and an unknown one has returned after a
\* successful bring-up, with a failed module among them
C26_Witness ==
    /\ pc = "done"
    /\ EnvironmentUp
    /\ total_count = 3
    /\ UnknownKeys \cap DOMAIN config # {}
    /\ success_count \in {1, 2}

(***************************************************************************)
(* C27: no device operation is ever issued with a null controller: every   *)
(* configure() checks the controller first and, when it is null, raises    *)
(* before any request; inside initialize() this is counted as a failure of *)
(* that module (attempted incremented, succeeded not) and the run goes on  *)
(* to the next module.                                                     *)
(***************************************************************************)
C27_NullControllerNeverUsed ==
    /\ device.log # << >> => ResolvedController # Null
    /\ (EnvironmentUp /\ ResolvedController = Null) =>
         /\ \A i \in DOMAIN trace : trace[i].ev = "end" => trace[i].res = "raised"
         /\ success_count = 0
         /\ pc # "new" => total_count = Cardinality(AttemptedKeys)
         /\ pc = "done" => (AttemptedKeys = DOMAIN config /\ result = "False")

\* a run over two modules whose configurators held a null controller is over:
\* both were attempted, none succeeded, nothing reached the device
C27_Witness ==
    /\ pc = "done"
    /\ EnvironmentUp
    /\ ResolvedController = Null
    /\ total_count = 2
    /\ success_count = 0
    /\ device.log = << >>

(***************************************************************************)
(* The environment bring-up in detail, core.py:75-120: the "adb devices"   *)
(* command of setup_environment, its exit status and the device list it    *)
(* prints.  The host side is kept in device.                               *)
(***************************************************************************)

\* the serials "adb devices" can print
ListedSerials == {"emulator-5554", "R58M123ABC"}

\* what subprocess.run([adb_path, "devices"], check=True) meets: a binary that
\* cannot be started (core.py:54-57 only warns about a missing adb path), a
\* command that exits with an error status, or a command that prints a list
AdbHosts ==
    {[adb |-> "unlaunchable", listed |-> {}], [adb |-> "exit_error", listed |-> {}]}
        \cup {[adb |-> "exit_ok", listed |-> L] : L \in SUBSET ListedSerials}

\* core.py:88, "emulator" in devices: the printed list names an emulator
ListsEmulator(listed) == \E s \in listed : s = "emulator-5554"

\* the configurations of the bring-up runs: at most one module
BringUpConfigs == {c \in Configurations : Cardinality(DOMAIN c) <= 1}

InitBringUp ==
    /\ config \in BringUpConfigs
    /\ device_serial \in DeviceSerials
    /\ env = NullEnv
    /\ pc = "setup_adb"
    /\ idx = 1
    /\ total_count = 0
    /\ success_count = 0
    /\ remaining = {}
    /\ configurator = NoConfigurator
    /\ cfgpc = "none"
    /\ ops = 0
    /\ result = "none"
    /\ trace = << >>
    /\ device \in AdbHosts
    /\ frame = NoFrame

\* variant of ListDevices: a device-listing command that exits with an error
\* status ends the bring-up
ListDevices_errorStatusFatal ==
    /\ pc = "setup_adb"
    /\ IF device.adb = "unlaunchable" \/ device.adb = "exit_error"
       THEN CriticalError
       ELSE IF TargetsEmulator(device_serial) /\ ~ListsEmulator(device.listed)
       THEN CriticalError
       ELSE /\ pc' = "setup_connect"
            /\ UNCHANGED << device, frame, config, device_serial, env, idx, total_count,
                            success_count, remaining, configurator, cfgpc, ops,
                            result, trace >>

\* core.py:80-94: subprocess.run(adb_cmd, ..., check=True).  An OSError of a
\* binary that cannot be started is no CalledProcessError: it reaches the
\* outer except (118-120) and initialize() returns False.  CalledProcessError
\* is logged (93-94) and the connection is tried.  With a device list, the
\* RuntimeError of line 91 is raised when an emulator is targeted and the
\* list names none.
ListDevices ==
    /\ pc = "setup_adb"
    /\ IF device.adb = "unlaunchable"
       THEN CriticalError
       ELSE IF device.adb = "exit_error"
       THEN /\ pc' = "setup_connect"
            /\ UNCHANGED << device, frame, config, device_serial, env, idx, total_count,
                            success_count, remaining, configurator, cfgpc, ops,
                            result, trace >>
       ELSE IF TargetsEmulator(device_serial) /\ ~ListsEmulator(device.listed)
       THEN CriticalError
       ELSE /\ pc' = "setup_connect"
            /\ UNCHANGED << device, frame, config, device_serial, env, idx, total_count,
                            success_count, remaining, configurator, cfgpc, ops,
                            result, trace >>

NextBringUp ==
    \/ ListDevices
    \/ SetupConnect
    \/ LoopSkip
    \/ LoopAttempt
    \/ NewConfigurator
    \/ ConfigureCall
    \/ BackendOp
    \/ ConfigureReturn
    \/ LoopExit
    \/ RemainingStep
    \/ Verdict

SpecBringUp == InitBringUp /\ [][NextBringUp]_vars

\* a device serial that does not start with "emulator-" was given
PhysicalTarget == device_serial = "R58M123ABC"

\* the device list was printed, an emulator is targeted and the list names none
MissingEmulator ==
    /\ device.adb = "exit_ok"
    /\ ~PhysicalTarget
    /\ ~ListsEmulator(device.listed)

\* initialize() returned false without attempting any configurator
Aborted == pc = "done" /\ result = "False" /\ total_count = 0 /\ trace = << >> /\ env = NullEnv

(***************************************************************************)
(* C28: the bring-up aborts the run (initialize() returns false, zero      *)
(* configurators attempted) when the device list names no emulator and the *)
(* target is not a physical device (no serial, or a serial starting with   *)
(* "emulator-"); when a serial not starting with "emulator-" is given, the *)
(* presence check is skipped: whatever the printed list names, the         *)
(* bring-up proceeds to the connection.                                    *)
(***************************************************************************)
C28_EmulatorPresenceCheck ==
    /\ [](MissingEmulator => (pc = "setup_adb" \/ Aborted))
    /\ [][(pc = "setup_adb" /\ device.adb = "exit_ok") =>
            IF ~PhysicalTarget /\ ~ListsEmulator(device.listed)
            THEN Aborted'
            ELSE pc' = "setup_connect" /\ result' = "none"]_vars

\* an emulator serial was given, the list names a physical device only, and
\* initialize() has returned false without attempting a configurator
C28_Witness ==
    /\ Aborted
    /\ device_serial = "emulator-5554"
    /\ device.adb = "exit_ok"
    /\ device.listed = {"R58M123ABC"}
    /\ DOMAIN config # {}

\* a physical serial was given, the list names no emulator, and the run went
\* on to configure a module
C28_WitnessPhysical ==
    /\ device_serial = "R58M123ABC"
    /\ device.adb = "exit_ok"
    /\ device.listed = {"R58M123ABC"}
    /\ pc = "done"
    /\ success_count = 1

(***************************************************************************)
(* C29, as stated: a device-listing command that exits with an error       *)
(* status is not fatal, and only a failure of the connection itself or a   *)
(* detected missing emulator makes the bring-up end with false.  Violated  *)
(* when the adb binary cannot be started: that error is no                 *)
(* CalledProcessError and ends the bring-up before the connection.         *)
(***************************************************************************)
C29_Original ==
    [][pc = "setup_adb" =>
         /\ device.adb = "exit_error" => pc' = "setup_connect"
         /\ pc' = "done" => MissingEmulator]_vars

(***************************************************************************)
(* C29, amended: a device-listing command that exits with an error status  *)
(* is not fatal: the presence check is skipped and the connection is       *)
(* attempted.  The bring-up makes initialize() return false when the       *)
(* listing command cannot be started at all, when a missing emulator is    *)
(* detected, or when the connection fails, and in no other case.           *)
(***************************************************************************)
C29_ListingFailure ==
    /\ [][pc = "setup_adb" =>
            /\ device.adb = "exit_error" => (pc' = "setup_connect" /\ result' = "none")
            /\ pc' = "done" => (MissingEmulator \/ device.adb = "unlaunchable")
            /\ pc' # "done" => pc' = "setup_connect"]_vars
    /\ [][pc = "setup_connect" =>
            \/ pc' = "loop" /\ env' # NullEnv
            \/ Aborted']_vars
    /\ [](device.adb = "unlaunchable" => (pc = "setup_adb" \/ Aborted))
    /\ []((pc = "done" /\ env = NullEnv) => Aborted)

\* no serial was given, the listing command exited with an error status, the
\* connection succeeded and the run configured its module and returned true
C29_Witness ==
    /\ device.adb = "exit_error"
    /\ device_serial = "none"
    /\ pc = "done"
    /\ result = "True"
    /\ success_count = 1
    /\ Cardinality(AttemptedKeys \cap OrderKeys) = 1

\* the configurators whose precondition helper returns True from its except
LenientKeys == {"calendar", "tasks", "recipe"}

\* positions of the precondition entries of key k in which a request after
\* the package check raised
PreconditionThrew(k) ==
    {i \in LogIndices(k, "threw") : device.log[i].stage = "precondition"}

\* the number of sub-steps the fragment of key k switches on
EnabledSteps(k) ==
    Cardinality({j \in DOMAIN Lifecycle[k] :
                   /\ Lifecycle[k][j].flag = "always" \/ Lifecycle[k][j].flag \in config[k].on
                   /\ Lifecycle[k][j].unless \notin config[k].on})

(***************************************************************************)
(* C30: in the Calendar, Tasks and Recipe configurators, when the          *)
(* application is installed but a request of the precondition helper       *)
(* (launch, root, permissions) raises, the module is not skipped: the      *)
(* precondition reports success, every clear / populate / refresh          *)
(* sub-step the fragment switches on still runs, the restart included, and *)
(* configure() returns true, whichever of the later requests raises.       *)
(***************************************************************************)
C30_LenientPrecondition ==
    \A k \in LenientKeys \cap DOMAIN config :
        PreconditionThrew(k) # {} =>
            /\ k \in device.packages
            /\ ~Skipped(k)
            /\ Outcome(k) # "none" =>
                 /\ Outcome(k) = "true"
                 /\ Len(StepsOf(k)) = EnabledSteps(k)
                 /\ StepsOf(k)[Len(StepsOf(k))].stage = "refresh"

\* the launch of the calendar application raised, the events were cleared and
\* added all the same, and the run returned true
C30_Witness ==
    /\ "calendar" \in DOMAIN config
    /\ PreconditionThrew("calendar") # {}
    /\ \E i \in LogIndices("calendar", "ok") : device.log[i].stage = "clear"
    /\ \E i \in LogIndices("calendar", "ok") : device.log[i].stage = "explicit"
    /\ Outcome("calendar") = "true"
    /\ pc = "done"
    /\ result = "True"

(***************************************************************************)
(* The insertion of the prepared calendar events,                          *)
(* calendar_configurator.py:190-227: one calendar_utils.add_events call    *)
(* for the whole batch and, when it raises, one call per event.  The       *)
(* request is not atomic: a call that raises may have written none, some   *)
(* or all of the rows it was given.                                        *)
(***************************************************************************)
\* largest number of events a fragment lists
MaxEvents == 2

\* {"add_events": [e1, ..., en]} with n complete events, named by their position
EventsFragment(n) == [module |-> "calendar", add_events |-> [i \in 1..n |-> i]]

InitFallback ==
    /\ config \in {[x \in {"calendar"} |-> EventsFragment(n)] : n \in 1..MaxEvents}
    /\ device_serial = "emulator-5554"
    /\ env = NullEnv
    /\ pc = "setup_adb"
    /\ idx = 1
    /\ total_count = 0
    /\ success_count = 0
    /\ remaining = {}
    /\ configurator = NoConfigurator
    /\ cfgpc = "none"
    /\ ops = 0
    /\ result = "none"
    /\ trace = << >>
    /\ device \in {[events |-> << >>, installed |-> inst, batch_raised |-> FALSE, singles |-> 0] :
                     inst \in BOOLEAN}
    /\ frame = NoFrame

\* calendar_configurator.py:27-41 and 122-183: the precondition, then the loop
\* that prepares one CalendarEvent per complete entry of add_events
PrepareBatch ==
    /\ RunsCalendar
    /\ frame = NoFrame
    /\ UNCHANGED device
    /\ IF device.installed
       THEN /\ frame' = [phase |-> "add", batch |-> configurator.config.add_events, i |-> 1]
            /\ StaysInConfigure
       ELSE ReturnFromConfigure(FALSE)

\* calendar_configurator.py:190-216, calendar_utils.add_events(calendar_events, ...):
\* the rows are written and the call returns, or the call raises after having
\* written the first w rows of the batch
InsertBatch ==
    /\ RunsCalendar
    /\ InPhase("add")
    /\ \/ /\ device' = [device EXCEPT !.events = @ \o frame.batch]
          /\ frame' = [frame EXCEPT !.phase = "end"]
       \/ \E w \in 0..Len(frame.batch) :
            /\ device' = [device EXCEPT !.events = @ \o SubSeq(frame.batch, 1, w),
                                        !.batch_raised = TRUE]
            /\ frame' = [frame EXCEPT !.phase = "one_by_one"]
    /\ StaysInConfigure

\* calendar_configurator.py:219-225, calendar_utils.add_events([event], ...) for
\* the next event of the batch, inside a try of its own
InsertSingle ==
    /\ RunsCalendar
    /\ InPhase("one_by_one")
    /\ \E written \in BOOLEAN :
         device' = [device EXCEPT
                      !.events = IF written THEN Append(@, frame.batch[frame.i]) ELSE @,
                      !.singles = @ + 1]
    /\ frame' = [frame EXCEPT !.i = @ + 1,
                              !.phase = IF frame.i = Len(frame.batch) THEN "end" ELSE @]
    /\ StaysInConfigure

\* calendar_configurator.py:43-48, _restart_calendar_app and return True
FallbackEnd ==
    /\ RunsCalendar
    /\ InPhase("end")
    /\ UNCHANGED device
    /\ ReturnFromConfigure(TRUE)

NextFallback ==
    \/ SetupAdbDevices
    \/ SetupConnect
    \/ LoopSkip
    \/ LoopAttempt
    \/ NewConfigurator
    \/ ConfigureCall
    \/ PrepareBatch
    \/ InsertBatch
    \/ InsertSingle
    \/ FallbackEnd
    \/ LoopExit
    \/ Verdict

SpecFallback == InitFallback /\ [][NextFallback]_vars

\* the number of rows the device holds for event e
Copies(e) == Cardinality({i \in DOMAIN device.events : device.events[i] = e})

(***************************************************************************)
(* C31: when the insertion of the batch raises, every prepared event is    *)
(* then attempted individually, a failed individual insertion does not     *)
(* stop the remaining ones, configure() still returns true, and no event   *)
(* ends up inserted more than once.  The last part is violated: the batch  *)
(* call can raise after it has written rows, and the fallback inserts the  *)
(* same events again.                                                      *)
(***************************************************************************)
C31_Original ==
    (device.batch_raised /\ Outcome("calendar") # "none") =>
        /\ device.singles = Len(config["calendar"].add_events)
        /\ Outcome("calendar") = "true"
        /\ \A e \in DOMAIN config["calendar"].add_events : Copies(e) <= 1

\* what the fallback does guarantee: every event is attempted individually,
\* configure() returns true, and no event is written more than twice
C31_FallbackAttemptsAll ==
    (device.batch_raised /\ Outcome("calendar") # "none") =>
        /\ device.singles = Len(config["calendar"].add_events)
        /\ Outcome("calendar") = "true"
        /\ \A e \in DOMAIN config["calendar"].add_events : Copies(e) <= 2

\* the batch call wrote its rows and raised, the fallback wrote them again
C31_Duplicated ==
    /\ device.batch_raised
    /\ Outcome("calendar") = "true"
    /\ \E e \in DOMAIN config["calendar"].add_events : Copies(e) = 2

(***************************************************************************)
(* The playlists of the music configurator,                                *)
(* music_configurator.py:172-270: one PlaylistEntity row per playlist and  *)
(* one SongEntity row per song, whose song_key is taken from a counter     *)
(* that the helper advances at the end of each playlist.                   *)
(***************************************************************************)
\* largest number of playlists of a fragment, and of songs of a playlist
MaxPlaylists == 2

MaxSongs == 2

\* {"add_playlists": [p1, ..., pm]}: each playlist is given by the number of
\* its songs (a playlist without songs is skipped at line 196-197)
PlaylistsFragment(counts) == [module |-> "music", add_playlists |-> counts]

PlaylistLists ==
    UNION {[1..m -> 0..MaxSongs] : m \in 1..MaxPlaylists}

InitPlaylists ==
    /\ config \in {[x \in {"music"} |-> PlaylistsFragment(counts)] : counts \in PlaylistLists}
    /\ device_serial = "emulator-5554"
    /\ env = NullEnv
    /\ pc = "setup_adb"
    /\ idx = 1
    /\ total_count = 0
    /\ success_count = 0
    /\ remaining = {}
    /\ configurator = NoConfigurator
    /\ cfgpc = "none"
    /\ ops = 0
    /\ result = "none"
    /\ trace = << >>
    /\ device = [songs |-> << >>, raised |-> FALSE]
    /\ frame = NoFrame

RunsMusic == InConfigure /\ cfgpc = "body" /\ configurator.key = "music"

SongRow(p, key) == [playlist |-> p, song_key |-> key]

\* the loop goes on with the playlist after the current one
NextPlaylist(counter) ==
    frame' = [frame EXCEPT !.p = @ + 1, !.i = 0, !.song_key_counter = counter]

\* music_configurator.py:29-31, 45-49 and 177-190: the precondition, then
\* launch_app outside any try of _create_playlists, then
\* song_key_counter = 10000
BeginPlaylists ==
    /\ RunsMusic
    /\ frame = NoFrame
    /\ UNCHANGED device
    /\ \E out \in {"launched", "absent", "launch_raised"} :
         IF out = "launched"
         THEN /\ frame' = [phase |-> "playlist", p |-> 1, i |-> 0, song_key_counter |-> 10000]
              /\ StaysInConfigure
         ELSE ReturnFromConfigure(FALSE)

\* music_configurator.py:192-210: the next playlist; one without songs is
\* skipped, otherwise its PlaylistEntity row is inserted, and when that request
\* raises the except of line 268 logs and the loop goes on
CreatePlaylist ==
    /\ RunsMusic
    /\ InPhase("playlist")
    /\ frame.i = 0
    /\ frame.p <= Len(configurator.config.add_playlists)
    /\ IF configurator.config.add_playlists[frame.p] = 0
       THEN /\ NextPlaylist(frame.song_key_counter)
            /\ UNCHANGED device
       ELSE \/ /\ frame' = [frame EXCEPT !.i = 1]
               /\ UNCHANGED device
            \/ /\ NextPlaylist(frame.song_key_counter)
               /\ device' = [device EXCEPT !.raised = TRUE]
    /\ StaysInConfigure

\* variant of InsertSong: the counter is advanced past the keys of a playlist
\* whose creation failed
InsertSong_advancesOnFailure ==
    /\ RunsMusic
    /\ InPhase("playlist")
    /\ frame.i >= 1
    /\ LET n == configurator.config.add_playlists[frame.p]
           current_song_key == frame.song_key_counter + (frame.i - 1)
       IN  \/ /\ device' = [device EXCEPT !.songs = Append(@, SongRow(frame.p, current_song_key))]
              /\ IF frame.i = n
                 THEN NextPlaylist(frame.song_key_counter + n + 1000)
                 ELSE frame' = [frame EXCEPT !.i = @ + 1]
           \/ /\ device' = [device EXCEPT !.raised = TRUE]
              /\ NextPlaylist(frame.song_key_counter + n + 1000)
    /\ StaysInConfigure

\* music_configurator.py:213-266: the SongEntity row of song i of the playlist,
\* written with song_key = song_key_counter + i; after the last song
\* song_key_counter += len(songs) + 1000.  When the request raises, the except
\* of line 268 logs and the loop goes on with the counter as it was.
InsertSong ==
    /\ RunsMusic
    /\ InPhase("playlist")
    /\ frame.i >= 1
    /\ LET n == configurator.config.add_playlists[frame.p]
           current_song_key == frame.song_key_counter + (frame.i - 1)
       IN  \/ /\ device' = [device EXCEPT !.songs = Append(@, SongRow(frame.p, current_song_key))]
              /\ IF frame.i = n
                 THEN NextPlaylist(frame.song_key_counter + n + 1000)
                 ELSE frame' = [frame EXCEPT !.i = @ + 1]
           \/ /\ device' = [device EXCEPT !.raised = TRUE]
              /\ NextPlaylist(frame.song_key_counter)
    /\ StaysInConfigure

\* music_configurator.py:51-58: _set_queue and _restart_music_app absorb their
\* exceptions, configure() returns True
PlaylistsEnd ==
    /\ RunsMusic
    /\ InPhase("playlist")
    /\ frame.p > Len(configurator.config.add_playlists)
    /\ UNCHANGED device
    /\ ReturnFromConfigure(TRUE)

NextPlaylists ==
    \/ SetupAdbDevices
    \/ SetupConnect
    \/ LoopSkip
    \/ LoopAttempt
    \/ NewConfigurator
    \/ ConfigureCall
    \/ BeginPlaylists
    \/ CreatePlaylist
    \/ InsertSong
    \/ PlaylistsEnd
    \/ LoopExit
    \/ Verdict

SpecPlaylists == InitPlaylists /\ [][NextPlaylists]_vars

\* no two song rows of the device share a song_key
UniqueSongKeys ==
    \A a, b \in DOMAIN device.songs :
        a # b => device.songs[a].song_key # device.songs[b].song_key

(***************************************************************************)
(* C32: the song_key values written for playlist songs are unique within   *)
(* one configure() call of the music configurator, in the same or in       *)
(* different playlists, also when the creation of an earlier playlist      *)
(* failed after some of its songs were inserted.  Violated: the counter is *)
(* advanced only at the end of a playlist that went through, so the        *)
(* playlist after a failed one starts again at the keys of the failed one. *)
(***************************************************************************)
C32_Original == UniqueSongKeys

\* what holds: the keys are unique as long as no request of the helper raised
C32_UniqueWithoutFailure == ~device.raised => UniqueSongKeys

\* two playlists went through without failure and their rows are on the device
C32_TwoPlaylists ==
    /\ ~device.raised
    /\ Outcome("music") = "true"
    /\ \E a, b \in DOMAIN device.songs : device.songs[a].playlist # device.songs[b].playlist

\* a playlist failed at its second song and the next one reused its first key
C32_Collision ==
    /\ Outcome("music") = "true"
    /\ \E a, b \in DOMAIN device.songs :
         /\ device.songs[a].playlist # device.songs[b].playlist
         /\ device.songs[a].song_key = device.songs[b].song_key

(***************************************************************************)
(* The timestamps of the tasks, tasks_configurator.py:104-282.  Times are  *)
(* milliseconds since the epoch, on a host set to UTC; the dates are taken *)
(* in January 1970 so that the numbers stay small.                         *)
(***************************************************************************)
\* largest number of explicit tasks of a fragment
MaxTasks == 2

HourMs == 3600 * 1000

DayMs == 24 * HourMs

WeekMs == 7 * DayMs

\* the values of due_date of an explicit task: no due_date key, the two
\* formats _parse_date_time accepts, and a string it does not accept
DueDates == {"absent", "1970-01-15", "January 16 1970", "mid January"}

\* datetime.datetime.now() at the moments the helper reads the clock
Clock == {18 * DayMs + 9 * HourMs, 18 * DayMs + 10 * HourMs}

\* tasks_configurator.py:284-297, _parse_date_time(date_str, "00:00"): the
\* "%B %d %Y" format, then the "%Y-%m-%d" format, else the current time
ParseDateTime(date_str, now) ==
    IF date_str = "January 16 1970" THEN 15 * DayMs
    ELSE IF date_str = "1970-01-15" THEN 14 * DayMs
    ELSE now

\* tasks_configurator.py:121-126, due_date_ts of an explicit task
DueDateTs(due, now) == IF due = "absent" THEN 0 ELSE ParseDateTime(due, now)

\* variant of CreatedTs: one week before the due date
CreatedTs_oneWeek(due_date_ts, now) ==
    IF due_date_ts > 0 THEN due_date_ts - 7 * 24 * 3600 * 1000 ELSE now

\* tasks_configurator.py:149, created_ts of an explicit task
CreatedTs(due_date_ts, now) ==
    IF due_date_ts > 0 THEN due_date_ts - 7 * 3600 * 1000 ELSE now

TaskRow(kind, due, due_ts, created, now) ==
    [kind |-> kind, due_date |-> due, dueDate |-> due_ts, created |-> created,
     modified |-> created, now |-> now]

\* {"add_tasks": [...], "add_random_tasks": true, "add_random_tasks_count": n}:
\* each explicit task has a title and is given by its due_date
TasksFragment(dues, n) ==
    [module |-> "tasks", add_tasks |-> dues, add_random_tasks_count |-> n]

TaskLists == UNION {[1..m -> DueDates] : m \in 1..MaxTasks}

InitTasks ==
    /\ config \in {[x \in {"tasks"} |-> TasksFragment(dues, n)] : dues \in TaskLists, n \in {0, 1}}
    /\ device_serial = "emulator-5554"
    /\ env = NullEnv
    /\ pc = "setup_adb"
    /\ idx = 1
    /\ total_count = 0
    /\ success_count = 0
    /\ remaining = {}
    /\ configurator = NoConfigurator
    /\ cfgpc = "none"
    /\ ops = 0
    /\ result = "none"
    /\ trace = << >>
    /\ device = [tasks |-> << >>]
    /\ frame = NoFrame

RunsTasks == InConfigure /\ cfgpc = "body" /\ configurator.key = "tasks"

\* tasks_configurator.py:28-39: the precondition and the clear, then
\* tasks_to_add = self.config.get('add_tasks', [])
BeginTasks ==
    /\ RunsTasks
    /\ frame = NoFrame
    /\ UNCHANGED device
    /\ \E installed \in BOOLEAN :
         IF installed
         THEN /\ frame' = [phase |-> "explicit", i |-> 1]
              /\ StaysInConfigure
         ELSE ReturnFromConfigure(FALSE)

\* tasks_configurator.py:111-171, one explicit task: its timestamps are
\* computed and the row is inserted, unless the request raises
AddSpecificTask ==
    /\ RunsTasks
    /\ InPhase("explicit")
    /\ frame.i <= Len(configurator.config.add_tasks)
    /\ \E now \in Clock :
         LET due == configurator.config.add_tasks[frame.i]
             due_date_ts == DueDateTs(due, now)
             created_ts == CreatedTs(due_date_ts, now)
         IN  \/ device' = [device EXCEPT !.tasks =
                             Append(@, TaskRow("explicit", due, due_date_ts, created_ts, now))]
             \/ UNCHANGED device
    /\ frame' = [frame EXCEPT !.i = @ + 1]
    /\ StaysInConfigure

\* tasks_configurator.py:177-282, the random tasks: due within the next days,
\* created_ts = due_date_ts - 7 * 24 * 3600 * 1000
AddRandomTask ==
    /\ RunsTasks
    /\ InPhase("explicit")
    /\ frame.i > Len(configurator.config.add_tasks)
    /\ \E now \in Clock : \E days_ahead \in 1..2 :
         LET due_date_ts == now + days_ahead * DayMs
         IN  device' = IF configurator.config.add_random_tasks_count > 0
                       THEN [device EXCEPT !.tasks =
                               Append(@, TaskRow("random", "random", due_date_ts, due_date_ts - WeekMs, now))]
                       ELSE device
    /\ frame' = [phase |-> "end"]
    /\ StaysInConfigure

\* tasks_configurator.py:47-51, _restart_tasks_app and return True
TasksEnd ==
    /\ RunsTasks
    /\ InPhase("end")
    /\ UNCHANGED device
    /\ ReturnFromConfigure(TRUE)

NextTasks ==
    \/ SetupAdbDevices
    \/ SetupConnect
    \/ LoopSkip
    \/ LoopAttempt
    \/ NewConfigurator
    \/ ConfigureCall
    \/ BeginTasks
    \/ AddSpecificTask
    \/ AddRandomTask
    \/ TasksEnd
    \/ LoopExit
    \/ Verdict

SpecTasks == InitTasks /\ [][NextTasks]_vars

\* the due_date of a task row is one _parse_date_time accepts
ParsableDue(r) == r.due_date \in {"1970-01-15", "January 16 1970"}

(***************************************************************************)
(* C33: for an explicit task with a parsable due date the stored creation  *)
(* and modification timestamps equal the due-date timestamp minus one week *)
(* (7 * 24 * 3600 * 1000 ms), as for random tasks; for a task without due  *)
(* date they equal the current time.  Violated: the explicit helper        *)
(* subtracts 7 * 3600 * 1000 ms, seven hours.                              *)
(***************************************************************************)
C33_Original ==
    \A i \in DOMAIN device.tasks :
        LET r == device.tasks[i] IN
        /\ r.modified = r.created
        /\ (r.kind = "explicit" /\ ParsableDue(r)) => r.created = r.dueDate - 7 * 24 * 3600 * 1000
        /\ r.kind = "random" => r.created = r.dueDate - 7 * 24 * 3600 * 1000
        /\ r.due_date = "absent" => r.created = r.now

\* what the code does: seven hours for an explicit task with a due date (also
\* one that could not be parsed), one week for a random task, the current
\* time for a task without due date
C33_SevenHours ==
    \A i \in DOMAIN device.tasks :
        LET r == device.tasks[i] IN
        /\ r.modified = r.created
        /\ (r.kind = "explicit" /\ r.due_date # "absent") => r.created = r.dueDate - 7 * HourMs
        /\ r.kind = "random" => r.created = r.dueDate - WeekMs
        /\ r.due_date = "absent" => r.created = r.now

\* an explicit task due on 1970-01-15 was stored with a creation time seven
\* hours before its due date
C33_Witness ==
    \E i \in DOMAIN device.tasks :
        /\ device.tasks[i].due_date = "1970-01-15"
        /\ device.tasks[i].dueDate - device.tasks[i].created = 7 * HourMs

(***************************************************************************)
(* The system configurator, system_configurator.py:15-200: five settings,  *)
(* each applied by a helper that checks the value and wraps its requests   *)
(* in a try of its own, then the recent apps, the app to open and the home *)
(* button.                                                                 *)
(***************************************************************************)
\* largest number of keys of a system fragment
MaxSettings == 2

\* the settings in the order configure() goes through them
SettingKeys == << "brightness", "wifi", "bluetooth", "clipboard", "airplane_mode" >>

SettingNames == {SettingKeys[i] : i \in DOMAIN SettingKeys}

\* variant of ValidValues: every value of the fragment is applied
ValidValues_any(s) == {"max", "min", "high", "on", "off", "yes", "text"}

\* system_configurator.py:65, 89, 118, 155: the values a helper accepts; the
\* clipboard helper (139-150) accepts every content
ValidValues(s) ==
    IF s = "brightness" THEN {"max", "min"}
    ELSE IF s = "clipboard" THEN {"text"}
    ELSE {"on", "off"}

\* the values a fragment can give to a key; "True" and "False" stand for the
\* booleans of the configuration file
GivenValues(s) ==
    IF s = "brightness" THEN {"max", "min", "high"}
    ELSE IF s = "clipboard" THEN {"text"}
    ELSE IF s = "close_all_apps" THEN {"True", "False"}
    ELSE IF s = "open_app" THEN {"Chrome"}
    ELSE {"on", "off", "yes"}

SystemKeys == SettingNames \cup {"close_all_apps", "open_app"}

\* the system fragments: at most MaxSettings keys, each with one of its values
SystemFragments ==
    UNION {{[module |-> "system", settings |-> f] :
              f \in {g \in [K -> UNION {GivenValues(s) : s \in K}] : \A s \in K : g[s] \in GivenValues(s)}} :
           K \in {S \in SUBSET SystemKeys : Cardinality(S) <= MaxSettings}}

\* the settings of the device before the run: all low or all high
DeviceSettings ==
    {[brightness |-> "min", wifi |-> "off", bluetooth |-> "off", clipboard |-> "", airplane_mode |-> "off"],
     [brightness |-> "max", wifi |-> "on", bluetooth |-> "on", clipboard |-> "old", airplane_mode |-> "on"]}

InitSystem ==
    /\ config \in {[x \in {"system"} |-> f] : f \in SystemFragments}
    /\ device_serial = "emulator-5554"
    /\ env = NullEnv
    /\ pc = "setup_adb"
    /\ idx = 1
    /\ total_count = 0
    /\ success_count = 0
    /\ remaining = {}
    /\ configurator = NoConfigurator
    /\ cfgpc = "none"
    /\ ops = 0
    /\ result = "none"
    /\ trace = << >>
    /\ \E st \in DeviceSettings : \E open \in {{}, {"Chrome"}} :
         device = [settings |-> st, first |-> st, recents |-> open, log |-> << >>]
    /\ frame = NoFrame

RunsSystem == InConfigure /\ cfgpc = "body" /\ configurator.key = "system"

\* the keys of the fragment of the running configure()
Given == DOMAIN configurator.config.settings

\* self.config.get('close_all_apps', False)
CloseRequested ==
    "close_all_apps" \in Given /\ configurator.config.settings["close_all_apps"] = "True"

\* the position of configure() in its try body
At(n) == IF frame = NoFrame THEN n = 1 ELSE frame.phase = "system" /\ frame.at = n

GoOn == frame' = [phase |-> "system", at |-> IF frame = NoFrame THEN 2 ELSE frame.at + 1]

\* a request named cmd was issued
Issued(cmd) == [device EXCEPT !.log = Append(@, cmd)]

\* system_configurator.py:22-40 and 62-170: "if '<s>' in self.config:
\* self._configure_<s>()".  The helper issues its request only for a value it
\* accepts; the request sets the value, or raises before or after having set
\* it, and the helper logs the exception.
ConfigureSetting(n) ==
    /\ RunsSystem
    /\ At(n)
    /\ LET s == SettingKeys[n] IN
         IF s \in Given /\ configurator.config.settings[s] \in ValidValues(s)
         THEN \/ device' = [Issued(s) EXCEPT !.settings[s] = configurator.config.settings[s]]
              \/ device' = Issued(s)
         ELSE UNCHANGED device
    /\ GoOn
    /\ StaysInConfigure

\* system_configurator.py:42-44 and 172-179, adb_utils.close_recents
CloseAllApps ==
    /\ RunsSystem
    /\ At(6)
    /\ IF CloseRequested
       THEN \/ device' = [Issued("close_recents") EXCEPT !.recents = {}]
            \/ device' = Issued("close_recents")
       ELSE UNCHANGED device
    /\ GoOn
    /\ StaysInConfigure

\* system_configurator.py:46-48 and 181-192, adb_utils.launch_app(app_name)
OpenApp ==
    /\ RunsSystem
    /\ At(7)
    /\ IF "open_app" \in Given
       THEN \/ device' = [Issued("launch_app") EXCEPT
                            !.recents = @ \cup {configurator.config.settings["open_app"]}]
            \/ device' = Issued("launch_app")
       ELSE UNCHANGED device
    /\ GoOn
    /\ StaysInConfigure

\* variant of PressHome: the home button is pressed whenever the recent apps
\* were to be closed
PressHome_afterEveryClose ==
    /\ RunsSystem
    /\ At(8)
    /\ IF CloseRequested
       THEN device' = Issued("press_home")
       ELSE UNCHANGED device
    /\ GoOn
    /\ StaysInConfigure

\* system_configurator.py:50-53 and 194-200, adb_utils.press_home_button
PressHome ==
    /\ RunsSystem
    /\ At(8)
    /\ IF CloseRequested /\ "open_app" \notin Given
       THEN device' = Issued("press_home")
       ELSE UNCHANGED device
    /\ GoOn
    /\ StaysInConfigure

\* system_configurator.py:55-56, return True
SystemEnd ==
    /\ RunsSystem
    /\ At(9)
    /\ UNCHANGED device
    /\ ReturnFromConfigure(TRUE)

NextSystem ==
    \/ SetupAdbDevices
    \/ SetupConnect
    \/ LoopSkip
    \/ LoopAttempt
    \/ NewConfigurator
    \/ ConfigureCall
    \/ \E n \in DOMAIN SettingKeys : ConfigureSetting(n)
    \/ CloseAllApps
    \/ OpenApp
    \/ PressHome
    \/ SystemEnd
    \/ LoopExit
    \/ Verdict

SpecSystem == InitSystem /\ [][NextSystem]_vars

\* positions of the requests named cmd
IssuedAt(cmd) == {i \in DOMAIN device.log : device.log[i] = cmd}

\* the keys and values of the system fragment of the run
SystemGiven == config["system"].settings

(***************************************************************************)
(* C34: in the system configurator the recent apps are closed before the   *)
(* requested app is opened, so the app named by open_app is not closed by  *)
(* the same configure() call; the home button is pressed if and only if    *)
(* close_all_apps is set and open_app is absent, and then only after the   *)
(* apps were closed.  Checked for the calls that pass the controller check *)
(* of line 17; a request counts as issued whether or not it raised.        *)
(***************************************************************************)
C34_CloseThenOpen ==
    /\ [](/\ \A i \in IssuedAt("launch_app") : \A j \in IssuedAt("close_recents") : j < i
          /\ \A i \in IssuedAt("press_home") : \E j \in IssuedAt("close_recents") : j < i
          /\ Outcome("system") = "true" =>
                (IssuedAt("press_home") # {} <=>
                   (/\ "close_all_apps" \in DOMAIN SystemGiven
                    /\ SystemGiven["close_all_apps"] = "True"
                    /\ "open_app" \notin DOMAIN SystemGiven)))
    /\ [][IssuedAt("launch_app") # {} => device.recents \subseteq device'.recents]_vars

\* the recent apps were closed, then Chrome was opened and is still open when
\* configure() has returned true; the home button was not pressed
C34_Witness ==
    /\ Outcome("system") = "true"
    /\ device.log = << "close_recents", "launch_app" >>
    /\ device.recents = {"Chrome"}
    /\ device.first.brightness = "max"

\* the value v is not one the helper of setting s accepts
InvalidValue(s, v) ==
    \/ s = "brightness" /\ v \notin {"max", "min"}
    \/ s \in {"wifi", "bluetooth", "airplane_mode"} /\ v \notin {"on", "off"}

InvalidSettings ==
    {s \in SettingNames \cap DOMAIN SystemGiven : InvalidValue(s, SystemGiven[s])}

(***************************************************************************)
(* C35: in the system configurator an invalid setting value (brightness    *)
(* other than "max"/"min"; wifi, bluetooth or airplane_mode other than     *)
(* "on"/"off") issues no device command for that setting, leaves that      *)
(* device setting unchanged, does not prevent the remaining settings from  *)
(* being applied, and configure() still returns true (the call raises only *)
(* on a null controller, before any setting is looked at).                 *)
(***************************************************************************)
C35_InvalidValueSkipped ==
    /\ \A s \in InvalidSettings :
         /\ IssuedAt(s) = {}
         /\ device.settings[s] = device.first[s]
    /\ Outcome("system") \in {"none", "true", "raised"}
    /\ Outcome("system") = "raised" => ResolvedController = Null
    /\ Outcome("system") = "true" =>
         \A s \in (SettingNames \cap DOMAIN SystemGiven) \ InvalidSettings : IssuedAt(s) # {}

\* brightness "high" was skipped and wifi was still switched on
C35_Witness ==
    /\ Outcome("system") = "true"
    /\ InvalidSettings = {"brightness"}
    /\ device.log = << "wifi" >>
    /\ device.first.wifi = "off"
    /\ device.settings.wifi = "on"
    /\ device.settings.brightness = device.first.brightness

(***************************************************************************)
(* The datetime configurator with every key of its fragment,               *)
(* datetime_configurator.py:19-163: the three settings helpers, then the   *)
(* explicit date or the random date.                                       *)
(***************************************************************************)
\* the 'datetime' key: not given, a dict with year, month and day, a dict
\* without day, a dict with month 13, an ISO string, another string, a number
DatetimeOptions == {"absent", "dict", "dict_partial", "dict_invalid", "iso", "bad_str", "number"}

\* random_window_center: not given, an ISO string, another string
CenterOptions == {"absent", "iso", "bad_str"}

DateTimeFragments ==
    {[module |-> "datetime", disable_auto_settings |-> a, use_24_hour_format |-> f, timezone |-> tz,
      datetime |-> dt, use_random_datetime |-> r, random_window_center |-> c] :
        a \in FormatOptions, f \in FormatOptions, tz \in {Unset, StrVal("UTC")},
        dt \in DatetimeOptions, r \in {"absent", "true"}, c \in CenterOptions}

InitDateTime ==
    /\ config \in {[x \in {"datetime"} |-> f] : f \in DateTimeFragments}
    /\ device_serial = "emulator-5554"
    /\ env = NullEnv
    /\ pc = "setup_adb"
    /\ idx = 1
    /\ total_count = 0
    /\ success_count = 0
    /\ remaining = {}
    /\ configurator = NoConfigurator
    /\ cfgpc = "none"
    /\ ops = 0
    /\ result = "none"
    /\ trace = << >>
    /\ device = [settings |-> Settings("12", "Asia/Tokyo"), date |-> "2024-01-01 08:00",
                 first |-> [settings |-> Settings("12", "Asia/Tokyo"), date |-> "2024-01-01 08:00"],
                 raised |-> FALSE]
    /\ frame = NoFrame

\* datetime_configurator.py:27-28 and 55-73: self.config.get('disable_auto_settings', True)
AutoSettings ==
    /\ RunsDateTime
    /\ frame = NoFrame
    /\ IF configurator.config.disable_auto_settings # "false"
       THEN \/ device' = [device EXCEPT !.settings.auto_time = "0", !.settings.auto_time_zone = "0"]
            \/ device' = [RequestRaised EXCEPT !.settings.auto_time = "0"]
            \/ device' = RequestRaised
       ELSE UNCHANGED device
    /\ frame' = [phase |-> "format"]
    /\ StaysInConfigure

\* datetime_configurator.py:109-126: the date the helper builds from the
\* value of 'datetime'; "none" when it builds none, "error" when
\* datetime.datetime(...) or fromisoformat raises
SpecificDatetime(v) ==
    IF v = "dict" THEN "2023-10-15 00:00"
    ELSE IF v = "iso" THEN "2023-10-15 12:00"
    ELSE IF v \in {"dict_partial", "number"} THEN "none"
    ELSE "error"

\* datetime_configurator.py:152-163, _set_datetime_direct: the date request
\* sets the clock or raises, and the helper logs the exception
SetDatetimeDirect(dt) ==
    \/ device' = [device EXCEPT !.date = dt]
    \/ device' = RequestRaised

\* variant of SetSpecificDatetime: a value that cannot be parsed fails the call
SetSpecificDatetime_propagates ==
    /\ RunsDateTime
    /\ InPhase("end")
    /\ configurator.config.datetime # "absent"
    /\ LET dt == SpecificDatetime(configurator.config.datetime) IN
         IF dt = "error"
         THEN /\ device' = RequestRaised
              /\ ReturnFromConfigure(FALSE)
         ELSE /\ IF dt = "none" THEN UNCHANGED device ELSE SetDatetimeDirect(dt)
              /\ ReturnFromConfigure(TRUE)

\* datetime_configurator.py:42-43, 49 and 104-128: "if 'datetime' in
\* self.config: self._set_specific_datetime()", then return True
SetSpecificDatetime ==
    /\ RunsDateTime
    /\ InPhase("end")
    /\ configurator.config.datetime # "absent"
    /\ LET dt == SpecificDatetime(configurator.config.datetime) IN
         IF dt = "error" THEN device' = RequestRaised
         ELSE IF dt = "none" THEN UNCHANGED device
         ELSE SetDatetimeDirect(dt)
    /\ ReturnFromConfigure(TRUE)

\* datetime_configurator.py:46-49 and 130-150: the center is parsed (or is
\* the current time), generate_random_datetime draws a date of the window
SetRandomDatetime ==
    /\ RunsDateTime
    /\ InPhase("end")
    /\ configurator.config.datetime = "absent"
    /\ configurator.config.use_random_datetime = "true"
    /\ IF configurator.config.random_window_center = "bad_str"
       THEN device' = RequestRaised
       ELSE \E dt \in {"2023-10-10 03:00", "2023-10-20 21:00"} : SetDatetimeDirect(dt)
    /\ ReturnFromConfigure(TRUE)

\* datetime_configurator.py:42-49: neither branch is taken, return True
DateTimeReturn ==
    /\ RunsDateTime
    /\ InPhase("end")
    /\ configurator.config.datetime = "absent"
    /\ configurator.config.use_random_datetime # "true"
    /\ UNCHANGED device
    /\ ReturnFromConfigure(TRUE)

NextDateTime ==
    \/ SetupAdbDevices
    \/ SetupConnect
    \/ LoopSkip
    \/ LoopAttempt
    \/ NewConfigurator
    \/ ConfigureCall
    \/ AutoSettings
    \/ Enable24HourFormat
    \/ SetTimezone
    \/ SetSpecificDatetime
    \/ SetRandomDatetime
    \/ DateTimeReturn
    \/ LoopExit
    \/ Verdict

SpecDateTime == InitDateTime /\ [][NextDateTime]_vars

\* no setting and no clock of the device differs from before the run
DeviceUntouched ==
    /\ device.settings = device.first.settings
    /\ device.date = device.first.date

(***************************************************************************)
(* C36: DateTimeConfigurator.configure() returns true for every mapping    *)
(* fragment when the controller is non-null, even if every backend command *)
(* it issues throws; therefore a true verdict of initialize() for a        *)
(* datetime-only configuration does not depend on any device setting       *)
(* having been changed.                                                    *)
(***************************************************************************)
C36_AlwaysTrue ==
    /\ Outcome("datetime") \in {"none", "true", "raised"}
    /\ Outcome("datetime") = "raised" => ResolvedController = Null
    /\ (pc = "done" /\ Outcome("datetime") = "true") => result = "True"

\* every key is given, every request raised, nothing on the device changed,
\* and initialize() returned True
C36_Witness ==
    /\ pc = "done"
    /\ result = "True"
    /\ config["datetime"].disable_auto_settings = "true"
    /\ config["datetime"].use_24_hour_format = "true"
    /\ Truthy(config["datetime"].timezone)
    /\ config["datetime"].datetime = "iso"
    /\ device.raised
    /\ DeviceUntouched

\* the same verdict after a run that changed every setting
C36_WitnessChanged ==
    /\ pc = "done"
    /\ result = "True"
    /\ ~device.raised
    /\ device.settings = [time_12_24 |-> "24", timezone |-> "UTC", auto_time |-> "0", auto_time_zone |-> "0"]
    /\ device.date = "2023-10-15 12:00"

(***************************************************************************)
(* The passthrough configure_system() (core.py:281-285) next to            *)
(* initialize() for a configuration that holds the system key alone.  A    *)
(* run is either initialize() on a new initializer, or one call of         *)
(* configure_system() on an initializer whose self.env is what             *)
(* setup_environment left there (or None, when it never ran).              *)
(***************************************************************************)
\* the configurations of the initializer whose passthrough is called: the
\* system fragment alone, next to another key, or no system key
PassthroughConfigs ==
    {[x \in {"system"} |-> f] : f \in SystemFragments}
    \cup {[x \in {"system", "contacts"} |-> IF x = "system" THEN f ELSE Fragment("contacts")] :
            f \in SystemFragments}
    \cup {<< >>, [x \in {"contacts"} |-> Fragment("contacts")]}

InitPassthrough ==
    /\ \/ /\ config \in {[x \in {"system"} |-> f] : f \in SystemFragments}
          /\ env = NullEnv
          /\ pc = "setup_adb"
          /\ device_serial = "emulator-5554"
       \/ /\ config \in PassthroughConfigs
          /\ env \in LaunchedEnvs \cup {NullEnv}
          /\ pc = "compat"
          /\ device_serial = "none"
    /\ idx = 1
    /\ total_count = 0
    /\ success_count = 0
    /\ remaining = {}
    /\ configurator = NoConfigurator
    /\ cfgpc = "none"
    /\ ops = 0
    /\ result = "none"
    /\ trace = << >>
    /\ LET st == [brightness |-> "min", wifi |-> "off", bluetooth |-> "off", clipboard |-> "",
                  airplane_mode |-> "off"] IN
         device = [settings |-> st, first |-> st, recents |-> {"Chrome"}, log |-> << >>]
    /\ frame = NoFrame

\* variant of ConfigureSystem: without the key the configurator is built from
\* an empty fragment
ConfigureSystem_withoutKey ==
    /\ pc = "compat"
    /\ configurator' = BaseConfiguratorInit("system", env,
                          IF "system" \in DOMAIN config THEN config["system"]
                          ELSE [module |-> "system", settings |-> << >>])
    /\ trace' = Append(trace, Event("new", "system", Null))
    /\ pc' = "compat_configure"
    /\ cfgpc' = "call"
    /\ UNCHANGED << device, frame, config, device_serial, env, idx, total_count, success_count,
                    remaining, ops, result >>

\* core.py:281-285, configure_system(): "if 'system' in self.config:
\* configurator = SystemConfigurator(self.env, self.config['system']);
\* configurator.configure()"
ConfigureSystem ==
    /\ pc = "compat"
    /\ IF "system" \in DOMAIN config
       THEN /\ configurator' = BaseConfiguratorInit("system", env, config["system"])
            /\ trace' = Append(trace, Event("new", "system", Null))
            /\ pc' = "compat_configure"
            /\ cfgpc' = "call"
       ELSE /\ pc' = "compat_done"
            /\ UNCHANGED << configurator, trace, cfgpc >>
    /\ UNCHANGED << device, frame, config, device_serial, env, idx, total_count, success_count,
                    remaining, ops, result >>

NextPassthrough ==
    \/ NextSystem
    \/ ConfigureSystem

SpecPassthrough == InitPassthrough /\ [][NextPassthrough]_vars

\* the run is a call of the passthrough
ViaPassthrough == pc \in {"compat", "compat_configure", "compat_done", "compat_raised"}

\* the request a system fragment asks for with the setting s, if any
SettingRequest(f, s) ==
    IF s \in DOMAIN f.settings /\ f.settings[s] \in ValidValues(s) THEN << s >> ELSE << >>

\* the requests of system_configurator.py:21-53 for the fragment f, in order
SystemRequests(f) ==
    LET closes == "close_all_apps" \in DOMAIN f.settings /\ f.settings["close_all_apps"] = "True"
        opens == "open_app" \in DOMAIN f.settings
    IN  SettingRequest(f, "brightness") \o SettingRequest(f, "wifi") \o SettingRequest(f, "bluetooth")
          \o SettingRequest(f, "clipboard") \o SettingRequest(f, "airplane_mode")
          \o (IF closes THEN << "close_recents" >> ELSE << >>)
          \o (IF opens THEN << "launch_app" >> ELSE << >>)
          \o (IF closes /\ ~opens THEN << "press_home" >> ELSE << >>)

C37_WitnessInitialize ==
    /\ pc = "done"
    /\ DOMAIN config = {"system"}
    /\ device.log = << "wifi", "close_recents", "press_home" >>

\* the passthrough was called without a system key
C37_WitnessAbsent ==
    /\ pc = "compat_done"
    /\ DOMAIN config = {"contacts"}

(***************************************************************************)
(* The music files of the music configurator,                              *)
(* music_configurator.py:36-43 and 114-150: one file per item, written     *)
(* through the full environment object.                                    *)
(***************************************************************************)
\* largest number of items of add_music_files
MaxFiles == 2

\* an item of add_music_files: a mapping with a title, a mapping without
\* one, or a value that is not a mapping
MusicItems == {"song", "untitled", "text"}

MusicFileLists == UNION {[1..n -> MusicItems] : n \in 0..MaxFiles}

MusicFilesFragment(items) == [module |-> "music", add_music_files |-> items]

InitMusicFiles ==
    /\ config \in {[x \in {"music"} |-> MusicFilesFragment(items)] : items \in MusicFileLists}
    /\ device_serial = "emulator-5554"
    /\ env \in PopulateEnvs
    /\ pc = "compat"
    /\ idx = 1
    /\ total_count = 0
    /\ success_count = 0
    /\ remaining = {}
    /\ configurator = NoConfigurator
    /\ cfgpc = "none"
    /\ ops = 0
    /\ result = "none"
    /\ trace = << >>
    /\ device = [files |-> << >>, reported |-> << >>, looked |-> 0, entered |-> FALSE]
    /\ frame = NoFrame

\* music_configurator.py:29-38 and 62-86: _setup_music_app returns False when
\* the package is missing or a request raises; then add_music_files is read
BeginMusicFiles ==
    /\ RunsMusic
    /\ frame = NoFrame
    /\ \/ /\ UNCHANGED device
          /\ ReturnFromConfigure(FALSE)
       \/ /\ device' = [device EXCEPT !.entered = TRUE]
          /\ frame' = [phase |-> IF configurator.config.add_music_files = << >> THEN "report" ELSE "files",
                       i |-> 1, added |-> 0]
          /\ StaysInConfigure

\* the locals after the iteration over item frame.i
NextMusicFile(f) ==
    IF f.i < Len(configurator.config.add_music_files)
    THEN [f EXCEPT !.i = f.i + 1] ELSE [f EXCEPT !.phase = "report"]

\* variant of AddMusicFile: the file is written through the controller when
\* there is no full environment object
AddMusicFile_writesWithController ==
    /\ RunsMusic
    /\ InPhase("files")
    /\ LET item == configurator.config.add_music_files[frame.i] IN
         IF item = "text"
         THEN /\ device' = [device EXCEPT !.looked = @ + 1]
              /\ ReturnFromConfigure(FALSE)
         ELSE \/ /\ device' = [device EXCEPT !.looked = @ + 1, !.files = Append(@, item)]
                 /\ frame' = NextMusicFile([frame EXCEPT !.added = @ + 1])
                 /\ StaysInConfigure
              \/ /\ device' = [device EXCEPT !.looked = @ + 1]
                 /\ frame' = NextMusicFile(frame)
                 /\ StaysInConfigure

\* music_configurator.py:119-148, one iteration of "for music_file in
\* music_files".  An item that is not a mapping raises at music_file.get in
\* the try and again in the except handler, which leaves configure() through
\* its own except (59-61); without a full env object the loop breaks; else
\* write_mp3_file_to_device returns or raises, and a raise is logged.
AddMusicFile ==
    /\ RunsMusic
    /\ InPhase("files")
    /\ LET item == configurator.config.add_music_files[frame.i] IN
         IF item = "text"
         THEN /\ device' = [device EXCEPT !.looked = @ + 1]
              /\ ReturnFromConfigure(FALSE)
         ELSE IF configurator.env = NullEnv
         THEN /\ device' = [device EXCEPT !.looked = @ + 1]
              /\ frame' = [frame EXCEPT !.phase = "report"]
              /\ StaysInConfigure
         ELSE \/ /\ device' = [device EXCEPT !.looked = @ + 1, !.files = Append(@, item)]
                 /\ frame' = NextMusicFile([frame EXCEPT !.added = @ + 1])
                 /\ StaysInConfigure
              \/ /\ device' = [device EXCEPT !.looked = @ + 1]
                 /\ frame' = NextMusicFile(frame)
                 /\ StaysInConfigure

\* music_configurator.py:38-58: the count is logged (device.reported) and the
\* directory scanned when the list is not empty; the helpers that follow absorb their
\* exceptions; return True
MusicFilesEnd ==
    /\ RunsMusic
    /\ InPhase("report")
    /\ device' = IF configurator.config.add_music_files = << >> THEN device
                 ELSE [device EXCEPT !.reported = << frame.added >>]
    /\ ReturnFromConfigure(TRUE)

NextMusicFiles ==
    \/ CompatCall
    \/ ConfigureCall
    \/ BeginMusicFiles
    \/ AddMusicFile
    \/ MusicFilesEnd

SpecMusicFiles == InitMusicFiles /\ [][NextMusicFiles]_vars

\* the environment is a bare controller: neither relation is present
BareController == env.base_env = Absent /\ env.controller = Absent

\* configure() is over and had reached a list with at least one item
MusicFilesRun ==
    /\ Outcome("music") # "none"
    /\ device.entered
    /\ config["music"].add_music_files # << >>

(***************************************************************************)
(* C38: when the environment was resolved from a bare controller (no rich  *)
(* handle), the music configurator writes no music file: it stops at the   *)
(* first item of add_music_files without any file write, reports zero      *)
(* added files, and configure() still returns true.                        *)
(* Violated when the first item is not a mapping: reading it raises, also  *)
(* in the except handler of the loop, nothing is reported and configure()  *)
(* returns false.                                                          *)
(***************************************************************************)
C38_Original ==
    (BareController /\ MusicFilesRun) =>
        /\ device.files = << >>
        /\ device.looked = 1
        /\ device.reported = << 0 >>
        /\ Outcome("music") = "true"

(***************************************************************************)
(* C38 as it holds: with a bare controller no file is written and the loop *)
(* ends at its first item; when that item is a mapping, zero added files   *)
(* are reported and configure() returns true; when it is not a mapping,    *)
(* nothing is reported and configure() returns false.                      *)
(***************************************************************************)
C38_BareController ==
    /\ BareController => device.files = << >> /\ device.looked <= 1
    /\ (BareController /\ MusicFilesRun) =>
          /\ device.looked = 1
          /\ IF config["music"].add_music_files[1] = "text"
             THEN device.reported = << >> /\ Outcome("music") = "false"
             ELSE device.reported = << 0 >> /\ Outcome("music") = "true"

\* two songs were asked for on a bare controller: the loop looked at one
\* item, zero files were reported and configure() returned true
C38_Witness ==
    /\ BareController
    /\ Outcome("music") = "true"
    /\ config["music"].add_music_files = << "song", "untitled" >>
    /\ device.looked = 1
    /\ device.reported = << 0 >>
    /\ device.files = << >>

\* the same list with a full environment object: both files written
C38_WitnessRichEnv ==
    /\ ~BareController
    /\ Outcome("music") = "true"
    /\ device.files = << "song", "untitled" >>
    /\ device.reported = << 2 >>
====
